---- MODULE Spec2Model ----
(***************************************************************************)
(* Model of aw::TreeTemplate (tree.h): the bidirectional tree container,   *)
(* its mutation primitives, the editing algorithms built from them and the *)
(* depth-first traversal engine.                                           *)
(*                                                                         *)
(* Node ids are 0-based as in the source; the node store nodes23 is a      *)
(* sequence, so node v lives at index v+1.  An adjacency list is the       *)
(* std::vector it is in the source: ordered, duplicates allowed.           *)
(***************************************************************************)
EXTENDS Integers, Sequences, FiniteSets, TLC

VARIABLES nodes23, root, edge_count, pre, last, it, events, skipped

treeVars == <<nodes23, root, edge_count>>
callVars == <<pre, last>>
dfsVars == <<it, events, skipped>>
vars == <<nodes23, root, edge_count, pre, last, it, events, skipped>>

(***************************************************************************)
(* Bounds of the model.                                                    *)
(***************************************************************************)
\* node store size and edge counter explored by Spec (every operation)
MaxNodes == 3
MaxEdges == 3
\* node store size and edge counter explored by SpecEdit (builders, edits)
MaxEditNodes == 4
MaxEditEdges == 3
\* node store size and edge counter explored by SpecBuild (new_node, add_edge)
MaxBuildNodes == 4
MaxBuildEdges == 3
\* length of the id sequence handed to trim_leaves / trim_leaves_rooted
MaxLeaves == 2
\* size of the trees traversed by SpecDfs
MaxDfsNodes == 4
MaxDfsEdges == 3
\* size of the trees traversed by SpecTerm, and skip() calls per traversal
MaxTermNodes == 3
MaxTermEdges == 2
MaxSkips == 2

(***************************************************************************)
(* static const unsigned int NONODE = UINT_MAX.  TLC integers are 32-bit   *)
(* signed, so the all-ones pattern is represented by the largest integer   *)
(* TLC has: like UINT_MAX it is no node id and compares above every id.    *)
(***************************************************************************)
NONODE == 2147483647

\* enum traversal_states
PREORDER == "PREORDER"
INORDER == "INORDER"
POSTORDER == "POSTORDER"
NOTRAVERSAL == "NOTRAVERSAL"

(***************************************************************************)
(* The tree as a value: the three data members of TreeTemplate.            *)
(***************************************************************************)
\* the one element of a singleton set.  Only({e(x) : x \in {d}}) is e(d) with the
\* value of d computed once, whatever the number of places e uses it in
Only(S) == CHOOSE z \in S : TRUE

Tree == [nodes23 |-> nodes23, root |-> root, edge_count |-> edge_count]

\* state after clear(), which the default constructor calls
clear == [nodes23 |-> <<>>, root |-> NONODE, edge_count |-> 0]

node_size(t) == Len(t.nodes23)
empty(t) == t.nodes23 = <<>>
NodeIds(t) == 0 .. (node_size(t) - 1)

adjacent(t, v) == t.nodes23[v + 1]
degree(t, v) == Len(adjacent(t, v))
is_leaf(t, v) == degree(t, v) <= 1
is_rooted(t) == t.root # NONODE
is_unrooted(t) == t.root = NONODE

(***************************************************************************)
(* AdjacentList                                                            *)
(***************************************************************************)
\* AdjacentList::insert: push_back
insert(data, v) == Append(data, v)

\* AdjacentList::exist: linear scan
exist(data, v) == \E i \in 1 .. Len(data) : data[i] = v

\* position the scan of AdjacentList::remove stops at: the first occurrence
FirstIndex(data, v) ==
    CHOOSE i \in 1 .. Len(data) :
        data[i] = v /\ \A j \in 1 .. (i - 1) : data[j] # v

\* AdjacentList::remove that takes every occurrence of v out
remove_every_occurrence(data, v) ==
    [found |-> exist(data, v), data |-> SelectSeq(data, LAMBDA x : x # v)]

\* AdjacentList::remove: overwrite the first occurrence with the last element
\* and shrink by one; found is the bool the method returns
remove(data, v) ==
    IF exist(data, v)
    THEN Only({[found |-> TRUE,
                data |-> IF i = Len(data)
                         THEN SubSeq(data, 1, Len(data) - 1)
                         ELSE SubSeq(data, 1, i - 1) \o <<data[Len(data)]>>
                              \o SubSeq(data, i + 1, Len(data) - 1)]
               : i \in {FirstIndex(data, v)}})
    ELSE [found |-> FALSE, data |-> data]

\* number of occurrences of v in an adjacency list
Count(data, v) == Cardinality({i \in 1 .. Len(data) : data[i] = v})

SetAdjacent(t, v, data) == [t EXCEPT !.nodes23[v + 1] = data]

(***************************************************************************)
(* Tree core mutation                                                      *)
(***************************************************************************)
\* new_node: resize the store by one; the new node has an empty adjacency
new_node(t) == [t EXCEPT !.nodes23 = Append(@, <<>>)]

\* add_edge that enters the edge at v only
add_edge_one_way(t, v, u) ==
    [SetAdjacent(t, v, insert(adjacent(t, v), u)) EXCEPT !.edge_count = @ + 1]

add_edge(t, v, u) ==
    Only({[SetAdjacent(t1, u, insert(adjacent(t1, u), v))
              EXCEPT !.edge_count = @ + 1]
          : t1 \in {SetAdjacent(t, v, insert(adjacent(t, v), u))}})

\* remove_edge that leaves edge_count as it is
remove_edge_keeps_count(t, v, u) ==
    Only({IF ~r1.found THEN [t |-> t, ret |-> FALSE]
          ELSE Only({IF ~r2.found
                     THEN [t |-> SetAdjacent(t, v, r1.data), ret |-> FALSE]
                     ELSE [t |-> SetAdjacent(SetAdjacent(t, v, r1.data), u, r2.data),
                           ret |-> TRUE]
                     : r2 \in {remove(adjacent(SetAdjacent(t, v, r1.data), u), v)}})
          : r1 \in {remove(adjacent(t, v), u)}})

\* remove_edge: ret is the returned bool; a failure of the second removal
\* returns after the first one has been done
remove_edge(t, v, u) ==
    Only({IF ~r1.found THEN [t |-> t, ret |-> FALSE]
          ELSE Only({IF ~r2.found
                     THEN [t |-> SetAdjacent(t, v, r1.data), ret |-> FALSE]
                     ELSE [t |-> [SetAdjacent(SetAdjacent(t, v, r1.data), u, r2.data)
                                     EXCEPT !.edge_count = @ - 1],
                           ret |-> TRUE]
                     : r2 \in {remove(adjacent(SetAdjacent(t, v, r1.data), u), v)}})
          : r1 \in {remove(adjacent(t, v), u)}})

\* disconnect_node: while (degree(v) != 0) remove_edge(v, *adjacent(v).begin())
RECURSIVE disconnect_node(_, _)
disconnect_node(t, v) ==
    IF degree(t, v) = 0 THEN t
    ELSE disconnect_node(remove_edge(t, v, adjacent(t, v)[1]).t, v)

(***************************************************************************)
(* Contraction                                                             *)
(***************************************************************************)
\* loop of contract_edge over the copy adj of u's adjacency:
\* remove_edge(i,ui); add_edge(i,vi);
RECURSIVE contract_edge_loop(_, _, _, _)
contract_edge_loop(t, adj, vi, ui) ==
    IF adj = <<>> THEN t
    ELSE contract_edge_loop(
             add_edge(remove_edge(t, Head(adj), ui).t, Head(adj), vi),
             Tail(adj), vi, ui)

\* contract_edge that takes the edge (v,u) out and leaves the rest of u alone
contract_edge_removes_only(t, v, u) == remove_edge(t, v, u).t

\* contract_edge(v,u), on the ids vi, ui the protected overload is handed
contract_edge(t, v, u) ==
    Only({contract_edge_loop(t1, adjacent(t1, u), v, u)
          : t1 \in {remove_edge(t, v, u).t}})

\* contract_chain_node that does not join the two neighbours
contract_chain_node_no_join(t, v) ==
    IF degree(t, v) # 2 THEN [t |-> t, ret |-> FALSE]
    ELSE IF v = t.root THEN [t |-> t, ret |-> FALSE]
    ELSE Only({[t |-> remove_edge(remove_edge(t, l[1], v).t, l[2], v).t,
                ret |-> TRUE]
               : l \in {adjacent(t, v)}})

\* contract_chain_node that looks at the root only after it removed the edges
contract_chain_node_late_root_test(t, v) ==
    IF degree(t, v) # 2 THEN [t |-> t, ret |-> FALSE]
    ELSE Only({IF v = t.root
               THEN [t |-> remove_edge(remove_edge(t, l[1], v).t, l[2], v).t,
                     ret |-> FALSE]
               ELSE [t |-> add_edge(remove_edge(remove_edge(t, l[1], v).t, l[2], v).t,
                                    l[1], l[2]),
                     ret |-> TRUE]
               : l \in {adjacent(t, v)}})

contract_chain_node(t, v) ==
    IF degree(t, v) # 2 THEN [t |-> t, ret |-> FALSE]
    ELSE IF v = t.root THEN [t |-> t, ret |-> FALSE]
    ELSE Only({[t |-> add_edge(remove_edge(remove_edge(t, l[1], v).t, l[2], v).t,
                               l[1], l[2]),
                ret |-> TRUE]
               : l \in {adjacent(t, v)}})

\* BOOST_FOREACH(i, adjacent(u)) if (degree(i) == 2) adj.push(i);
\* the stack is a sequence whose last element is the top
RECURSIVE push_chain_neighbours(_, _, _)
push_chain_neighbours(t, stack, adj) ==
    IF adj = <<>> THEN stack
    ELSE push_chain_neighbours(
             t,
             IF degree(t, Head(adj)) = 2 THEN Append(stack, Head(adj)) ELSE stack,
             Tail(adj))

\* while loop of contract_chain.  term = FALSE: the loop does not end.  Every
\* iteration that neither returns nor meets a self-loop takes one edge away,
\* so a loop that ends does so within edge_count + 1 iterations: fuel counts
\* them, and running out of fuel is the loop that never ends (a node whose
\* adjacency is <<v,v>> pushes itself twice each time it is popped).
RECURSIVE contract_chain_loop(_, _, _)
contract_chain_loop(t, stack, fuel) ==
    IF stack = <<>> THEN [t |-> t, ret |-> TRUE, term |-> TRUE]
    ELSE IF fuel = 0 THEN [t |-> t, ret |-> FALSE, term |-> FALSE]
    ELSE Only({IF ~r.ret THEN [t |-> r.t, ret |-> FALSE, term |-> TRUE]
               ELSE contract_chain_loop(
                        r.t,
                        push_chain_neighbours(t, SubSeq(stack, 1, Len(stack) - 1),
                                              adjacent(t, stack[Len(stack)])),
                        fuel - 1)
               : r \in {contract_chain_node(t, stack[Len(stack)])}})

\* contract_chain that contracts v and goes no further
contract_chain_one_node(t, v) ==
    Only({[t |-> r.t, ret |-> r.ret, term |-> TRUE] : r \in {contract_chain_node(t, v)}})

contract_chain(t, v) == contract_chain_loop(t, <<v>>, t.edge_count + 2)

\* for (i = 0; i < nodes23.size(); ++i) if (!contract_chain_node(i)) return false;
RECURSIVE contract_all_chains_loop(_, _, _)
contract_all_chains_loop(t, i, iEE) ==
    IF i >= iEE THEN [t |-> t, ret |-> TRUE]
    ELSE Only({IF ~r.ret THEN r ELSE contract_all_chains_loop(r.t, i + 1, iEE)
               : r \in {contract_chain_node(t, i)}})

contract_all_chains(t) == contract_all_chains_loop(t, 0, node_size(t))

(***************************************************************************)
(* Trimming                                                                *)
(***************************************************************************)
\* trim_leaf that does not contract the chain its neighbour may have become
trim_leaf_no_contraction(t, v) ==
    IF degree(t, v) # 1 THEN [t |-> t, ret |-> FALSE, term |-> TRUE]
    ELSE [t |-> remove_edge(t, v, adjacent(t, v)[1]).t, ret |-> TRUE, term |-> TRUE]

\* trim_leaf that contracts the chain of p before it takes the leaf off
trim_leaf_contraction_first(t, v) ==
    IF degree(t, v) # 1 THEN [t |-> t, ret |-> FALSE, term |-> TRUE]
    ELSE Only({Only({[t |-> remove_edge(c.t, v, p).t, ret |-> TRUE, term |-> c.term]
                     : c \in {contract_chain(t, p)}})
               : p \in {adjacent(t, v)[1]}})

\* trim_leaf: the result of contract_chain(p) is dropped
trim_leaf(t, v) ==
    IF degree(t, v) # 1 THEN [t |-> t, ret |-> FALSE, term |-> TRUE]
    ELSE Only({[t |-> c.t, ret |-> TRUE, term |-> c.term]
               : c \in {Only({contract_chain(remove_edge(t, v, p).t, p)
                               : p \in {adjacent(t, v)[1]}})}})

\* trim_leaves that goes on with the next leaf after a failure
RECURSIVE trim_leaves_goes_on(_, _)
trim_leaves_goes_on(t, leaves) ==
    IF leaves = <<>> THEN [t |-> t, ret |-> TRUE, term |-> TRUE]
    ELSE Only({IF ~r.term THEN r
               ELSE Only({[t |-> q.t, ret |-> r.ret /\ q.ret, term |-> q.term]
                          : q \in {trim_leaves_goes_on(r.t, Tail(leaves))}})
               : r \in {trim_leaf(t, Head(leaves))}})

\* BOOST_FOREACH(v, leaves) if (!trim_leaf(v)) return false;
RECURSIVE trim_leaves(_, _)
trim_leaves(t, leaves) ==
    IF leaves = <<>> THEN [t |-> t, ret |-> TRUE, term |-> TRUE]
    ELSE Only({IF ~r.term \/ ~r.ret THEN r ELSE trim_leaves(r.t, Tail(leaves))
               : r \in {trim_leaf(t, Head(leaves))}})

\* the loop of trim_root as an if: the root moves down once
trim_root_one_step(t, fuel) ==
    IF degree(t, t.root) # 1 THEN [t |-> t, ret |-> TRUE, term |-> TRUE]
    ELSE Only({[t |-> [remove_edge(t, c, t.root).t EXCEPT !.root = c],
                ret |-> TRUE, term |-> TRUE]
               : c \in {adjacent(t, t.root)[1]}})

\* while (degree(root) == 1) { c = first; remove_edge(c,root); root = c; }
\* fuel as in contract_chain_loop: each iteration takes one edge away
RECURSIVE trim_root_loop(_, _)
trim_root_loop(t, fuel) ==
    IF degree(t, t.root) # 1 THEN [t |-> t, ret |-> TRUE, term |-> TRUE]
    ELSE IF fuel = 0 THEN [t |-> t, ret |-> FALSE, term |-> FALSE]
    ELSE Only({trim_root_loop([remove_edge(t, c, t.root).t EXCEPT !.root = c],
                              fuel - 1)
               : c \in {adjacent(t, t.root)[1]}})

trim_root(t) ==
    IF ~is_rooted(t) THEN [t |-> t, ret |-> FALSE, term |-> TRUE]
    ELSE IF degree(t, t.root) # 1 THEN [t |-> t, ret |-> FALSE, term |-> TRUE]
    ELSE trim_root_loop(t, t.edge_count + 1)

\* trim_leaves_rooted that calls trim_root only when trim_leaves succeeded
trim_leaves_rooted_root_on_success(t, leaves) ==
    Only({IF ~r.term \/ ~r.ret THEN r
          ELSE Only({[t |-> q.t, ret |-> r.ret, term |-> q.term]
                     : q \in {trim_root(r.t)}})
          : r \in {trim_leaves(t, leaves)}})

\* ret = trim_leaves(leaves); trim_root(); return ret;
trim_leaves_rooted(t, leaves) ==
    Only({IF ~r.term THEN r
          ELSE Only({[t |-> q.t, ret |-> r.ret, term |-> q.term]
                     : q \in {trim_root(r.t)}})
          : r \in {trim_leaves(t, leaves)}})

(***************************************************************************)
(* Subtree rearrangement                                                   *)
(***************************************************************************)
\* children(v, parent, vec): every entry of v's adjacency that is not parent
children_vector(t, v, parent) ==
    LET F[k \in 0 .. degree(t, v)] ==
            IF k = 0 THEN <<>>
            ELSE IF adjacent(t, v)[k] # parent
                 THEN Append(F[k - 1], adjacent(t, v)[k])
                 ELSE F[k - 1]
    IN  F[degree(t, v)]

\* vec.reserve(degree(v)-1) in children(v, parent, vec): for an isolated v the
\* unsigned difference is UINT_MAX, a request for 2^32-1 elements that the
\* allocator either grants or answers with an exception
ReserveOutcomes(t, v) == IF degree(t, v) = 0 THEN {"ok", "throw"} ELSE {"ok"}

\* BOOST_FOREACH(i, ch) if (!remove_edge(x,i)) return false;
RECURSIVE remove_edges(_, _, _)
remove_edges(t, x, ch) ==
    IF ch = <<>> THEN [t |-> t, ret |-> TRUE]
    ELSE Only({IF ~r.ret THEN r ELSE remove_edges(r.t, x, Tail(ch))
               : r \in {remove_edge(t, x, Head(ch))}})

\* BOOST_FOREACH(i, ch) add_edge(n,i);
RECURSIVE add_edges(_, _, _)
add_edges(t, n, ch) ==
    IF ch = <<>> THEN t ELSE add_edges(add_edge(t, n, Head(ch)), n, Tail(ch))

\* if (ch.size() == 2) add_edge(ch[0],ch[1]);
\* else if (ch.size() > 2) { n = new_node(); add_edge(n,i) for each i }
\* join_children that joins the first two children and makes no node
join_children_first_two(t, ch) ==
    IF Len(ch) >= 2 THEN add_edge(t, ch[1], ch[2]) ELSE t

join_children(t, ch) ==
    IF Len(ch) = 2 THEN add_edge(t, ch[1], ch[2])
    ELSE IF Len(ch) > 2 THEN add_edges(new_node(t), node_size(t), ch)
    ELSE t

\* the block the three operations share: cut x off its children other than
\* excl and join those children
prune(t, x, excl) ==
    Only({Only({IF ~r.ret THEN r
                ELSE [t |-> join_children(r.t, ch), ret |-> TRUE]
                : r \in {remove_edges(t, x, ch)}})
          : ch \in {children_vector(t, x, excl)}})

\* regraft x into (u,v): if (!remove_edge(u,v)) return false;
\* add_edge(x,u); add_edge(x,v);
\* regraft that joins x to u and not to v
regraft_one_side(t, x, u, v) ==
    Only({IF ~r.ret THEN r
          ELSE [t |-> add_edge(r.t, x, u), ret |-> TRUE]
          : r \in {remove_edge(t, u, v)}})

regraft(t, x, u, v) ==
    Only({IF ~r.ret THEN r
          ELSE [t |-> add_edge(add_edge(r.t, x, u), x, v), ret |-> TRUE]
          : r \in {remove_edge(t, u, v)}})

\* spr_to_root that leaves the root marker where it was
spr_to_root_keeps_root(t, u, pu) ==
    IF ~is_rooted(t) THEN [t |-> t, ret |-> FALSE]
    ELSE IF u = t.root THEN [t |-> t, ret |-> FALSE]
    ELSE IF pu = t.root THEN [t |-> t, ret |-> TRUE]
    ELSE Only({IF ~r.ret THEN r
               ELSE [t |-> add_edge(r.t, pu, t.root), ret |-> TRUE]
               : r \in {prune(t, pu, u)}})

spr_to_root(t, u, pu) ==
    IF ~is_rooted(t) THEN [t |-> t, ret |-> FALSE]
    ELSE IF u = t.root THEN [t |-> t, ret |-> FALSE]
    ELSE IF pu = t.root THEN [t |-> t, ret |-> TRUE]
    ELSE Only({IF ~r.ret THEN r
               ELSE [t |-> [add_edge(r.t, pu, t.root) EXCEPT !.root = pu],
                     ret |-> TRUE]
               : r \in {prune(t, pu, u)}})

\* spr that takes pn = u for trivial but not pn = v
spr_tests_u_only(t, n, pn, u, v) ==
    IF pn = u THEN [t |-> t, ret |-> TRUE]
    ELSE Only({IF ~r.ret THEN r ELSE regraft(r.t, pn, u, v)
               : r \in {prune(t, pn, n)}})

spr(t, n, pn, u, v) ==
    IF pn = u THEN [t |-> t, ret |-> TRUE]
    ELSE IF pn = v THEN [t |-> t, ret |-> TRUE]
    ELSE Only({IF ~r.ret THEN r ELSE regraft(r.t, pn, u, v)
               : r \in {prune(t, pn, n)}})

\* reroot that refuses an unrooted tree, as spr_to_root and spr_from_root do
reroot_needs_root(t, n, pn, u, v) ==
    IF ~is_rooted(t) THEN [t |-> t, ret |-> FALSE]
    ELSE IF n = u THEN [t |-> t, ret |-> TRUE]
    ELSE IF n = v THEN [t |-> t, ret |-> TRUE]
    ELSE Only({IF ~r.ret THEN r ELSE regraft(r.t, n, u, v)
               : r \in {prune(t, n, pn)}})

reroot(t, n, pn, u, v) ==
    IF n = u THEN [t |-> t, ret |-> TRUE]
    ELSE IF n = v THEN [t |-> t, ret |-> TRUE]
    ELSE Only({IF ~r.ret THEN r ELSE regraft(r.t, n, u, v)
               : r \in {prune(t, n, pn)}})

(***************************************************************************)
(* spr_from_root walks children(root,c) while remove_edge shrinks the very *)
(* vector it walks.  The begin and end positions are taken once; a removal *)
(* writes the last element over the removed one and lowers the size, and   *)
(* the storage behind the new size keeps what it held.  mem is that        *)
(* storage (as long as the adjacency was when the walk began), pos the     *)
(* position of the iterator, Len(mem)+1 the end taken at the start.        *)
(***************************************************************************)
\* the storage after AdjacentList::remove(x) on its first s elements
MemRemove(mem, s, x) ==
    IF exist(SubSeq(mem, 1, s), x)
    THEN [mem |-> [mem EXCEPT ![FirstIndex(SubSeq(mem, 1, s), x)] = mem[s]],
          s |-> s - 1]
    ELSE [mem |-> mem, s |-> s]

\* the storage of adjacent(root) after remove_edge(root, i)
MemRemoveEdge(t, mem, i) ==
    Only({IF i = t.root /\ m1.s < degree(t, t.root)
          THEN MemRemove(m1.mem, m1.s, t.root).mem
          ELSE m1.mem
          : m1 \in {MemRemove(mem, degree(t, t.root), i)}})

\* what a read behind the end taken at the start can yield: any id of the
\* store, or a value that is no id
Garbage(t) == NodeIds(t) \cup {NONODE}

\* the set of outcomes of the loop
\*   BOOST_FOREACH(i, children(root,c)) if (!remove_edge(root,i)) return false;
\* ret = TRUE: the loop ran to its end
RECURSIVE spr_from_root_loop(_, _, _, _)
spr_from_root_body(t, mem, pos, c, i) ==
    IF i \notin NodeIds(t) THEN {[t |-> t, ret |-> FALSE]}
    ELSE UNION {IF ~r.ret THEN {[t |-> r.t, ret |-> FALSE]}
                ELSE spr_from_root_loop(r.t, MemRemoveEdge(t, mem, i), pos + 1, c)
                : r \in {remove_edge(t, t.root, i)}}

spr_from_root_loop(t, mem, pos, c) ==
    LET end == Len(mem) + 1
        \* ChildrenList::Iterator::operator==
        p1 == IF pos < end /\ mem[pos] = c THEN pos + 1 ELSE pos
        \* ChildrenList::Iterator::operator*
        p2 == IF p1 < end /\ mem[p1] = c THEN p1 + 1 ELSE p1
    IN  IF pos = end \/ (pos < end /\ p1 = end) THEN {[t |-> t, ret |-> TRUE]}
        ELSE IF p2 >= end
             THEN UNION {spr_from_root_body(t, mem, p2, c, g) : g \in Garbage(t)}
             ELSE spr_from_root_body(t, mem, p2, c, mem[p2])

spr_from_root(t, c, r, u, v) ==
    IF ~is_rooted(t) THEN {[t |-> t, ret |-> FALSE]}
    ELSE IF t.root = u \/ t.root = v THEN {[t |-> t, ret |-> TRUE]}
    ELSE UNION {
             IF ~l.ret THEN {l}
             ELSE {IF ~g.ret THEN g
                   ELSE [t |-> [g.t EXCEPT !.root = r], ret |-> TRUE]
                   : g \in {regraft(l.t, t.root, u, v)}}
             : l \in spr_from_root_loop(t, adjacent(t, t.root), 1, c)}

(***************************************************************************)
(* Connectivity                                                            *)
(***************************************************************************)
\* the bitset after the marking loop: visited[0] = 1, and for every node i
\* every adjacent j > i
\* the marking that takes any neighbour, smaller or larger, for a visit
Visited_by_any_neighbour(t) ==
    {0} \cup {j \in NodeIds(t) : \E i \in NodeIds(t) : exist(adjacent(t, i), j)}

Visited(t) ==
    {0} \cup {j \in NodeIds(t) :
                 \E i \in NodeIds(t) : j > i /\ exist(adjacent(t, i), j)}

is_connected(t) == \A i \in NodeIds(t) : i \in Visited(t)

\* components that starts its count at 0
components_counts_from_zero(t) == Cardinality(NodeIds(t) \ Visited(t))

components(t) == 1 + Cardinality(NodeIds(t) \ Visited(t))

(***************************************************************************)
(* The calls of the host.  pre is the tree a call found, last the call     *)
(* and what it returned: ret is "true" or "false" for a bool, "void" for a *)
(* call without a result and "throw" for a call left by an exception.      *)
(* Between two calls last is NoCall and pre is the tree itself.            *)
(***************************************************************************)
\* ---------------------------------------------------------------------
\* Iterator_dfs: the depth-first engine and the cursors of its frames

\* direction of an iterator whose cursor was read one past the end of an
\* adjacency list, and of one that ran into ERROR_exit("broken traversal")
UNDEFINED == "undefined"
BROKEN == "broken"

\* no iterator exists
NoIterator ==
    [live |-> FALSE, view |-> "dfs", idx |-> NONODE, lvl |-> 0, parent |-> NONODE,
     direction |-> NOTRAVERSAL, dfs_stack |-> <<>>]

\* a frame of dfs_stack: first the node, second the cursor into the node's
\* adjacency list (a position), third the end of the list, parent the id
\* the two ChildrenList iterators pass over
dfs_item(t, v, p) ==
    [first |-> v, second |-> 1, third |-> Len(adjacent(t, v)) + 1, parent |-> p]

\* ChildrenList::Iterator::operator== of w.second against w.third: a cursor
\* that stands on the parent steps over it while it is compared
Iterator_eq(t, w) ==
    IF w.second = w.third THEN [eq |-> TRUE, w |-> w]
    ELSE IF adjacent(t, w.first)[w.second] = w.parent
    THEN [eq |-> w.second + 1 = w.third, w |-> [w EXCEPT !.second = @ + 1]]
    ELSE [eq |-> FALSE, w |-> w]

\* ChildrenList::Iterator::operator* of w.second: steps over the parent, then
\* reads; past_end tells that the read is one past the end of the list
Iterator_deref(t, w) ==
    Only({[past_end |-> w2.second >= w2.third,
           value |-> IF w2.second >= w2.third THEN NONODE
                     ELSE adjacent(t, w.first)[w2.second],
           w |-> w2]
          : w2 \in {IF adjacent(t, w.first)[w.second] = w.parent
                    THEN [w EXCEPT !.second = @ + 1] ELSE w}})

dfs_end(i) == i.dfs_stack = <<>>

get_parent(dfs_stack) ==
    IF Len(dfs_stack) < 2 THEN NONODE ELSE dfs_stack[Len(dfs_stack) - 1].first

\* dfs_init(v, p)
dfs_init_v_p(t, v, p) ==
    [live |-> TRUE, view |-> "dfs", idx |-> v, lvl |-> 0, parent |-> p,
     direction |-> PREORDER, dfs_stack |-> <<dfs_item(t, v, p)>>]

\* dfs_init() on a store that has a node: the walk starts at the root, at
\* node 0 when there is no root
dfs_init(t) ==
    dfs_init_v_p(t, IF t.root = NONODE THEN 0 ELSE t.root, NONODE)

\* the two branches of dfs_next that look for a child to go down to: with no
\* child left the direction becomes leaf_direction
dfs_descend(t, i, leaf_direction) ==
    Only({IF e.eq
          THEN [i EXCEPT !.direction = leaf_direction,
                         !.dfs_stack[Len(i.dfs_stack)] = e.w]
          ELSE Only({IF d.past_end
                     THEN [i EXCEPT !.direction = UNDEFINED,
                                    !.dfs_stack[Len(i.dfs_stack)] = d.w]
                     ELSE [i EXCEPT !.direction = PREORDER,
                                    !.parent = i.idx,
                                    !.idx = d.value,
                                    !.lvl = @ + 1,
                                    !.dfs_stack =
                                        Append([i.dfs_stack EXCEPT
                                                   ![Len(i.dfs_stack)] = d.w],
                                               dfs_item(t, d.value, i.idx))]
                     : d \in {Iterator_deref(t, e.w)}})
          : e \in {Iterator_eq(t, i.dfs_stack[Len(i.dfs_stack)])}})

\* dfs_ascend that comes back to a node with Between after its last child too
dfs_ascend_between_after_last_child(t, i) ==
    Only({IF below = <<>>
          THEN [i EXCEPT !.idx = NONODE, !.lvl = 0, !.parent = NONODE,
                         !.direction = NOTRAVERSAL, !.dfs_stack = below]
          ELSE [i EXCEPT !.idx = below[Len(below)].first,
                         !.lvl = @ - 1,
                         !.parent = get_parent(below),
                         !.direction = INORDER,
                         !.dfs_stack = [below EXCEPT ![Len(below)].second = @ + 1]]
          : below \in {SubSeq(i.dfs_stack, 1, Len(i.dfs_stack) - 1)}})

\* the POSTORDER branch of dfs_next: the frame is popped and the frame below
\* moves its cursor on
dfs_ascend(t, i) ==
    Only({IF below = <<>>
          THEN [i EXCEPT !.idx = NONODE, !.lvl = 0, !.parent = NONODE,
                         !.direction = NOTRAVERSAL, !.dfs_stack = below]
          ELSE Only({[i EXCEPT !.idx = e.w.first,
                               !.lvl = @ - 1,
                               !.parent = get_parent(below),
                               !.direction = IF e.eq THEN POSTORDER ELSE INORDER,
                               !.dfs_stack = [below EXCEPT ![Len(below)] = e.w]]
                     : e \in {Iterator_eq(t, [below[Len(below)]
                                                 EXCEPT !.second = @ + 1])}})
          : below \in {SubSeq(i.dfs_stack, 1, Len(i.dfs_stack) - 1)}})

\* dfs_next that takes Between for Leave and Leave for Between on the way up
dfs_next_leave_for_between(t, i) ==
    IF dfs_end(i) THEN i
    ELSE IF i.direction = PREORDER THEN dfs_descend(t, i, INORDER)
    ELSE IF i.direction = INORDER THEN dfs_descend(t, i, POSTORDER)
    ELSE IF i.direction = POSTORDER
    THEN Only({IF a.direction = POSTORDER THEN [a EXCEPT !.direction = INORDER]
               ELSE IF a.direction = INORDER THEN [a EXCEPT !.direction = POSTORDER]
               ELSE a
               : a \in {dfs_ascend(t, i)}})
    ELSE [i EXCEPT !.direction = BROKEN]

dfs_next(t, i) ==
    IF dfs_end(i) THEN i
    ELSE IF i.direction = PREORDER THEN dfs_descend(t, i, INORDER)
    ELSE IF i.direction = INORDER THEN dfs_descend(t, i, POSTORDER)
    ELSE IF i.direction = POSTORDER THEN dfs_ascend(t, i)
    ELSE [i EXCEPT !.direction = BROKEN]

\* Iterator_dfs::operator++
increment(t, i) ==
    Only({IF dfs_end(n) THEN [n EXCEPT !.idx = node_size(t)] ELSE n
          : n \in {dfs_next(t, i)}})

\* the iterator is equal to end_dfs()
at_end(t, i) == i.idx = node_size(t)

\* skip() that puts the cursor of the top frame at the start of the list
skip_rewinds(i) ==
    [i EXCEPT !.dfs_stack[Len(i.dfs_stack)] = [@ EXCEPT !.second = 1]]

\* skip(): the cursor of the top frame is put at its end
skip(i) ==
    [i EXCEPT !.dfs_stack[Len(i.dfs_stack)] =
                  [@ EXCEPT !.second = i.dfs_stack[Len(i.dfs_stack)].third]]

\* the views: Iterator_eulertour, Iterator_preorder, Iterator_inorder and
\* Iterator_postorder are Iterator_dfs with an is_candidate of their own; the
\* raw engine ("dfs") stops at every step
Views == {"dfs", "eulertour", "preorder", "inorder", "postorder"}

is_candidate(t, i) ==
    IF i.view = "eulertour" THEN ~is_leaf(t, i.idx) \/ i.direction = INORDER
    ELSE IF i.view = "preorder" THEN i.direction = PREORDER
    ELSE IF i.view = "inorder" THEN i.direction = INORDER
    ELSE IF i.view = "postorder" THEN i.direction = POSTORDER
    ELSE TRUE

\* operator++ of a view that sets idx to node_size() only when it took the
\* engine to its end itself
RECURSIVE view_increment_end_once(_, _)
view_increment_end_once(t, i) ==
    Only({IF dfs_end(n)
          THEN [n EXCEPT !.idx = IF dfs_end(i) THEN NONODE ELSE node_size(t)]
          ELSE IF n.direction \in {UNDEFINED, BROKEN} THEN n
          ELSE IF is_candidate(t, n) THEN n
          ELSE view_increment_end_once(t, n)
          : n \in {dfs_next(t, i)}})

\* operator++ of a view: dfs_next until the engine is at its end or at a
\* step the view shows
RECURSIVE view_increment(_, _)
view_increment(t, i) ==
    Only({IF dfs_end(n) THEN [n EXCEPT !.idx = node_size(t)]
          ELSE IF n.direction \in {UNDEFINED, BROKEN} THEN n
          ELSE IF is_candidate(t, n) THEN n
          ELSE view_increment(t, n)
          : n \in {dfs_next(t, i)}})

\* constructor of a view that leaves the engine at its first step
Iterator_view_stays_at_first_step(t, view, i) == [i EXCEPT !.view = view]

\* the constructor of a view over the engine i that Iterator_dfs made
Iterator_view(t, view, i) ==
    Only({IF ~at_end(t, j) /\ ~is_candidate(t, j) THEN view_increment(t, j) ELSE j
          : j \in {[i EXCEPT !.view = view]}})

\* what the engine shows at a step: the event (direction) and the node, the
\* depth and the parent that go with it
event(i) ==
    [idx |-> i.idx, lvl |-> i.lvl, parent |-> i.parent, direction |-> i.direction]

B(b) == IF b THEN "true" ELSE "false"

NoCall == [op |-> "none", args |-> <<>>, ret |-> "void"]

Init ==
    /\ nodes23 = clear.nodes23
    /\ root = clear.root
    /\ edge_count = clear.edge_count
    /\ pre = clear
    /\ last = NoCall
    /\ it = NoIterator
    /\ events = <<>>
    /\ skipped = <<>>

\* the call op(args) returns ret and leaves the tree t; N and E bound the
\* node store and the edge counter of the states explored
Call(op, args, t, ret, N, E) ==
    /\ node_size(t) <= N
    /\ t.edge_count <= E
    /\ pre' = Tree
    /\ last' = [op |-> op, args |-> args, ret |-> ret]
    /\ nodes23' = t.nodes23
    /\ root' = t.root
    /\ edge_count' = t.edge_count
    /\ UNCHANGED dfsVars

\* no call is recorded: the host is about to make one
Idle == last.op = "none"

\* the host has taken the result of the call: the record of the call is
\* dropped, and with it the iterator the call may have made; the tree stays
\* as the call left it
result_taken ==
    /\ ~Idle
    /\ pre' = Tree
    /\ last' = NoCall
    /\ it' = NoIterator
    /\ events' = <<>>
    /\ skipped' = <<>>
    /\ UNCHANGED treeVars

do_clear(N, E) ==
    /\ Idle
    /\ Call("clear", <<>>, clear, "void", N, E)

do_new_node(N, E) ==
    /\ Idle
    /\ Call("new_node", <<>>, new_node(Tree), "void", N, E)

\* the host assigns the public member root; the id is one of the store
do_set_root(N, E) ==
    /\ Idle
    /\ \E v \in NodeIds(Tree) :
           Call("set_root", <<v>>, [Tree EXCEPT !.root = v], "void", N, E)

do_unroot(N, E) ==
    /\ Idle
    /\ Call("unroot", <<>>, [Tree EXCEPT !.root = NONODE], "void", N, E)

do_add_edge(N, E) ==
    /\ Idle
    /\ \E v, u \in NodeIds(Tree) :
           Call("add_edge", <<v, u>>, add_edge(Tree, v, u), "void", N, E)

do_remove_edge(N, E) ==
    /\ Idle
    /\ \E v, u \in NodeIds(Tree) :
           \E r \in {remove_edge(Tree, v, u)} :
               Call("remove_edge", <<v, u>>, r.t, B(r.ret), N, E)

\* add_edge(v,u) immediately followed by remove_edge(v,u); ret is the result
\* of the remove_edge
do_add_remove_edge(N, E) ==
    /\ Idle
    /\ \E v, u \in NodeIds(Tree) :
           \E r \in {remove_edge(add_edge(Tree, v, u), v, u)} :
               Call("add_edge;remove_edge", <<v, u>>, r.t, B(r.ret), N, E)

do_disconnect_node(N, E) ==
    /\ Idle
    /\ \E v \in NodeIds(Tree) :
           Call("disconnect_node", <<v>>, disconnect_node(Tree, v), "void", N, E)

do_contract_edge(N, E) ==
    /\ Idle
    /\ \E v, u \in NodeIds(Tree) :
           Call("contract_edge", <<v, u>>, contract_edge(Tree, v, u), "void", N, E)

do_contract_chain_node(N, E) ==
    /\ Idle
    /\ \E v \in NodeIds(Tree) :
           \E r \in {contract_chain_node(Tree, v)} :
               Call("contract_chain_node", <<v>>, r.t, B(r.ret), N, E)

\* a call whose loop does not end has no state after it
do_contract_chain(N, E) ==
    /\ Idle
    /\ \E v \in NodeIds(Tree) :
           \E r \in {contract_chain(Tree, v)} :
               r.term /\ Call("contract_chain", <<v>>, r.t, B(r.ret), N, E)

do_contract_all_chains(N, E) ==
    /\ Idle
    /\ \E r \in {contract_all_chains(Tree)} :
           Call("contract_all_chains", <<>>, r.t, B(r.ret), N, E)

do_trim_leaf(N, E) ==
    /\ Idle
    /\ \E v \in NodeIds(Tree) :
           \E r \in {trim_leaf(Tree, v)} :
               r.term /\ Call("trim_leaf", <<v>>, r.t, B(r.ret), N, E)

\* the id sequences of length at most MaxLeaves
LeafSeqs(t) ==
    UNION {[1 .. k -> NodeIds(t)] : k \in 0 .. MaxLeaves}

do_trim_leaves(N, E) ==
    /\ Idle
    /\ \E leaves \in LeafSeqs(Tree) :
           \E r \in {trim_leaves(Tree, leaves)} :
               r.term /\ Call("trim_leaves", <<leaves>>, r.t, B(r.ret), N, E)

do_trim_leaves_rooted(N, E) ==
    /\ Idle
    /\ \E leaves \in LeafSeqs(Tree) :
           \E r \in {trim_leaves_rooted(Tree, leaves)} :
               r.term /\ Call("trim_leaves_rooted", <<leaves>>, r.t, B(r.ret), N, E)

do_trim_root(N, E) ==
    /\ Idle
    /\ \E r \in {trim_root(Tree)} :
           r.term /\ Call("trim_root", <<>>, r.t, B(r.ret), N, E)

do_spr_to_root(N, E) ==
    /\ Idle
    /\ \E u, pu \in NodeIds(Tree) :
           \/ \E r \in {spr_to_root(Tree, u, pu)} :
                  Call("spr_to_root", <<u, pu>>, r.t, B(r.ret), N, E)
           \/ /\ is_rooted(Tree) /\ u # root /\ pu # root
              /\ "throw" \in ReserveOutcomes(Tree, pu)
              /\ Call("spr_to_root", <<u, pu>>, Tree, "throw", N, E)

do_spr_from_root(N, E) ==
    /\ Idle
    /\ \E c, r, u, v \in NodeIds(Tree) :
           \E o \in spr_from_root(Tree, c, r, u, v) :
               Call("spr_from_root", <<c, r, u, v>>, o.t, B(o.ret), N, E)

do_spr(N, E) ==
    /\ Idle
    /\ \E n, pn, u, v \in NodeIds(Tree) :
           \/ \E r \in {spr(Tree, n, pn, u, v)} :
                  Call("spr", <<n, pn, u, v>>, r.t, B(r.ret), N, E)
           \/ /\ pn # u /\ pn # v
              /\ "throw" \in ReserveOutcomes(Tree, pn)
              /\ Call("spr", <<n, pn, u, v>>, Tree, "throw", N, E)

do_reroot(N, E) ==
    /\ Idle
    /\ \E n, pn, u, v \in NodeIds(Tree) :
           \/ \E r \in {reroot(Tree, n, pn, u, v)} :
                  Call("reroot", <<n, pn, u, v>>, r.t, B(r.ret), N, E)
           \/ /\ n # u /\ n # v
              /\ "throw" \in ReserveOutcomes(Tree, n)
              /\ Call("reroot", <<n, pn, u, v>>, Tree, "throw", N, E)

\* visited[0] = 1 on the bitset of an empty store writes outside it: the
\* call is made on a store that has a node
do_is_connected(N, E) ==
    /\ Idle
    /\ /\ ~empty(Tree)
       /\ Call("is_connected", <<>>, Tree, B(is_connected(Tree)), N, E)

\* as is_connected, components is called on a store that has a node
do_components(N, E) ==
    /\ Idle
    /\ /\ ~empty(Tree)
       /\ Call("components", <<>>, Tree, components(Tree), N, E)

\* every operation, on a small store
Next ==
    \/ result_taken
    \/ do_clear(MaxNodes, MaxEdges)
    \/ do_new_node(MaxNodes, MaxEdges)
    \/ do_set_root(MaxNodes, MaxEdges)
    \/ do_unroot(MaxNodes, MaxEdges)
    \/ do_add_edge(MaxNodes, MaxEdges)
    \/ do_remove_edge(MaxNodes, MaxEdges)
    \/ do_add_remove_edge(MaxNodes, MaxEdges)
    \/ do_disconnect_node(MaxNodes, MaxEdges)
    \/ do_contract_edge(MaxNodes, MaxEdges)
    \/ do_contract_chain_node(MaxNodes, MaxEdges)
    \/ do_contract_chain(MaxNodes, MaxEdges)
    \/ do_contract_all_chains(MaxNodes, MaxEdges)
    \/ do_trim_leaf(MaxNodes, MaxEdges)
    \/ do_trim_leaves(MaxNodes, MaxEdges)
    \/ do_trim_leaves_rooted(MaxNodes, MaxEdges)
    \/ do_trim_root(MaxNodes, MaxEdges)
    \/ do_spr_to_root(MaxNodes, MaxEdges)
    \/ do_spr_from_root(MaxNodes, MaxEdges)
    \/ do_spr(MaxNodes, MaxEdges)
    \/ do_reroot(MaxNodes, MaxEdges)
    \/ do_is_connected(MaxNodes, MaxEdges)

Spec == Init /\ [][Next]_vars

\* a host that only builds a graph and asks whether it is connected
NextBuild ==
    \/ result_taken
    \/ do_new_node(MaxBuildNodes, MaxBuildEdges)
    \/ do_add_edge(MaxBuildNodes, MaxBuildEdges)
    \/ do_is_connected(MaxBuildNodes, MaxBuildEdges)
    \/ do_components(MaxBuildNodes, MaxBuildEdges)

SpecBuild == Init /\ [][NextBuild]_vars

\* the builders and the editing operations, on a larger store
NextEdit ==
    \/ result_taken
    \/ do_new_node(MaxEditNodes, MaxEditEdges)
    \/ do_set_root(MaxEditNodes, MaxEditEdges)
    \/ do_unroot(MaxEditNodes, MaxEditEdges)
    \/ do_add_edge(MaxEditNodes, MaxEditEdges)
    \/ do_remove_edge(MaxEditNodes, MaxEditEdges)
    \/ do_disconnect_node(MaxEditNodes, MaxEditEdges)
    \/ do_contract_edge(MaxEditNodes, MaxEditEdges)
    \/ do_contract_chain_node(MaxEditNodes, MaxEditEdges)
    \/ do_contract_chain(MaxEditNodes, MaxEditEdges)
    \/ do_contract_all_chains(MaxEditNodes, MaxEditEdges)
    \/ do_trim_leaf(MaxEditNodes, MaxEditEdges)
    \/ do_trim_leaves(MaxEditNodes, MaxEditEdges)
    \/ do_trim_leaves_rooted(MaxEditNodes, MaxEditEdges)
    \/ do_trim_root(MaxEditNodes, MaxEditEdges)

SpecEdit == Init /\ [][NextEdit]_vars

(***************************************************************************)
(* Reference notions the properties are stated with.                       *)
(***************************************************************************)
Range(data) == {data[i] : i \in 1 .. Len(data)}

\* two adjacency lists hold the same ids the same number of times
SameBag(d1, d2) ==
    \A x \in Range(d1) \cup Range(d2) : Count(d1, x) = Count(d2, x)

\* the nodes that a path of edges joins to a node of S
RECURSIVE Reach(_, _)
Reach(t, S) ==
    Only({IF S2 = S THEN S ELSE Reach(t, S2)
          : S2 \in {S \cup {j \in NodeIds(t) :
                               \E i \in S : exist(adjacent(t, i), j)}}})

\* all nodes of a store that has one form a single connected component
Connected(t) == Reach(t, {0}) = NodeIds(t)

SumDegrees(t) ==
    LET F[k \in 0 .. node_size(t)] ==
            IF k = 0 THEN 0 ELSE F[k - 1] + Len(t.nodes23[k])
    IN  F[node_size(t)]

Called(op) == last.op = op

\* the nodes that a path of edges joins to a node of S without entering X
RECURSIVE ReachAvoiding(_, _, _)
ReachAvoiding(t, S, X) ==
    Only({IF S2 = S THEN S ELSE ReachAvoiding(t, S2, X)
          : S2 \in {S \cup {j \in NodeIds(t) \ X :
                               \E i \in S : exist(adjacent(t, i), j)}}})

\* the connected components, each the set of its nodes
Components(t) == {Reach(t, {v}) : v \in NodeIds(t)}

\* the id ordering components() relies on: every node but the smallest of
\* its component has a neighbour with a smaller id
AscendingIds(t) ==
    \A C \in Components(t) : \A j \in C :
        (\E i \in C : i < j) => \E i \in NodeIds(t) : i < j /\ exist(adjacent(t, j), i)

\* every component is a tree: no edge from a node to itself, no edge twice,
\* no cycle
IsForest(t) ==
    /\ \A v \in NodeIds(t) : \A u \in NodeIds(t) : Count(adjacent(t, v), u) <= 1
    /\ \A v \in NodeIds(t) : ~exist(adjacent(t, v), v)
    /\ t.edge_count + Cardinality({Reach(t, {v}) : v \in NodeIds(t)}) = node_size(t)

\* ---------------------------------------------------------------------
\* traversals: the host makes an iterator over a forest, steps it, and
\* drops it (result_taken) before it calls the tree again

begin(op, args, i) ==
    /\ Idle
    /\ IsForest(Tree)
    /\ pre' = Tree
    /\ last' = [op |-> op, args |-> args, ret |-> "void"]
    /\ it' = i
    /\ events' = IF at_end(Tree, i) THEN <<>> ELSE <<event(i)>>
    /\ skipped' = <<>>
    /\ UNCHANGED treeVars

\* begin_dfs(): Iterator_dfs(0, this); on the empty store 0 is node_size()
\* and nothing is initialised
do_begin_dfs ==
    \/ /\ ~empty(Tree)
       /\ begin("begin_dfs", <<>>, dfs_init(Tree))
    \/ /\ empty(Tree)
       /\ \E l \in {0, 1}, q \in {0, NONODE},
             d \in {PREORDER, INORDER, POSTORDER, NOTRAVERSAL} :
              begin("begin_dfs", <<>>,
                    [NoIterator EXCEPT !.live = TRUE, !.idx = 0, !.lvl = l,
                                       !.parent = q, !.direction = d])

\* begin_dfs(v): Iterator_dfs(0, this, v) with p = NONODE
do_begin_dfs_v ==
    \E v \in NodeIds(Tree) :
        begin("begin_dfs", <<v>>, dfs_init_v_p(Tree, v, NONODE))

\* begin_dfs(v, p)
do_begin_dfs_v_p ==
    \E v \in NodeIds(Tree), p \in NodeIds(Tree) \cup {NONODE} :
        begin("begin_dfs", <<v, p>>, dfs_init_v_p(Tree, v, p))

\* ++it
do_increment ==
    /\ it.live
    /\ it.direction \notin {UNDEFINED, BROKEN}
    /\ \E n \in {increment(Tree, it)} :
           /\ it' = n
           /\ events' = IF at_end(Tree, n) THEN events ELSE Append(events, event(n))
    /\ UNCHANGED <<treeVars, callVars, skipped>>

\* begin_eulertour, begin_preorder, begin_inorder, begin_postorder and
\* begin_dfs, each without argument, with v, and with v and p
do_begin_view(view) ==
    \/ /\ ~empty(Tree)
       /\ begin("begin_" \o view, <<>>, Iterator_view(Tree, view, dfs_init(Tree)))
    \/ /\ empty(Tree)
       /\ \E l \in {0, 1}, q \in {0, NONODE},
             d \in {PREORDER, INORDER, POSTORDER, NOTRAVERSAL} :
              begin("begin_" \o view, <<>>,
                    [NoIterator EXCEPT !.live = TRUE, !.view = view, !.idx = 0,
                                       !.lvl = l, !.parent = q, !.direction = d])
    \/ \E v \in NodeIds(Tree) :
           begin("begin_" \o view, <<v>>,
                 Iterator_view(Tree, view, dfs_init_v_p(Tree, v, NONODE)))
    \/ \E v \in NodeIds(Tree), p \in NodeIds(Tree) \cup {NONODE} :
           begin("begin_" \o view, <<v, p>>,
                 Iterator_view(Tree, view, dfs_init_v_p(Tree, v, p)))

\* ++it on a view
do_view_increment ==
    /\ it.live
    /\ it.direction \notin {UNDEFINED, BROKEN}
    /\ \E n \in {view_increment(Tree, it)} :
           /\ it' = n
           /\ events' = IF at_end(Tree, n) THEN events ELSE Append(events, event(n))
    /\ UNCHANGED <<treeVars, callVars, skipped>>

NextDfs ==
    \/ result_taken
    \/ do_new_node(MaxDfsNodes, MaxDfsEdges)
    \/ do_set_root(MaxDfsNodes, MaxDfsEdges)
    \/ do_add_edge(MaxDfsNodes, MaxDfsEdges)
    \/ do_begin_dfs
    \/ do_begin_dfs_v
    \/ do_begin_dfs_v_p
    \/ do_increment

SpecDfs == Init /\ [][NextDfs]_vars

\* forests and the five views over them
NextViews ==
    \/ result_taken
    \/ do_new_node(MaxDfsNodes, MaxDfsEdges)
    \/ do_set_root(MaxDfsNodes, MaxDfsEdges)
    \/ do_add_edge(MaxDfsNodes, MaxDfsEdges)
    \/ \E view \in Views : do_begin_view(view)
    \/ do_view_increment

SpecViews == Init /\ [][NextViews]_vars

\* it.skip() on a traversal that is at a node (on an exhausted iterator
\* dfs_stack.rbegin() is not a frame); skipped keeps the number of events
\* the traversal had shown when skip() was called
do_skip ==
    /\ it.live
    /\ ~dfs_end(it)
    /\ it.direction \notin {UNDEFINED, BROKEN}
    /\ Len(skipped) < MaxSkips
    /\ it' = skip(it)
    /\ skipped' = Append(skipped, Len(events))
    /\ UNCHANGED <<treeVars, callVars, events>>

\* the five views with skip() calls, the host stepping its iterator for as
\* long as it keeps it
NextTerm ==
    \/ result_taken
    \/ do_new_node(MaxTermNodes, MaxTermEdges)
    \/ do_set_root(MaxTermNodes, MaxTermEdges)
    \/ do_add_edge(MaxTermNodes, MaxTermEdges)
    \/ \E view \in Views : do_begin_view(view)
    \/ do_view_increment
    \/ do_skip

SpecTerm == Init /\ [][NextTerm]_vars /\ WF_vars(do_view_increment)

\* the raw engine over forests, with skip() calls
NextSkip ==
    \/ result_taken
    \/ do_new_node(MaxDfsNodes, MaxDfsEdges)
    \/ do_add_edge(MaxDfsNodes, MaxDfsEdges)
    \/ do_begin_dfs_v_p
    \/ do_increment
    \/ do_skip

SpecSkip == Init /\ [][NextSkip]_vars

\* the start node and the parent handed to the begin_ call of the traversal
ViewStart ==
    IF Len(last.args) = 0 THEN (IF root = NONODE THEN 0 ELSE root) ELSE last.args[1]
ViewParent == IF Len(last.args) = 2 THEN last.args[2] ELSE NONODE
ViewBlocked ==
    IF exist(adjacent(Tree, ViewStart), ViewParent) THEN {ViewParent} ELSE {}
\* the nodes the start node reaches without passing through the parent
ViewCovered == ReachAvoiding(Tree, {ViewStart}, ViewBlocked)
\* the node ids a view has yielded so far
Yielded == [k \in 1 .. Len(events) |-> events[k].idx]

\* the node the traversal started at, and the neighbour it was told to take
\* for the parent of that node
DfsStart == events[1].idx
DfsBlocked ==
    IF Len(last.args) = 2 /\ exist(adjacent(Tree, DfsStart), last.args[2])
    THEN {last.args[2]} ELSE {}

\* the nodes of the traversal, and the descendants of x among them: the
\* nodes that the start node reaches only through x
Covered == ReachAvoiding(Tree, {DfsStart}, DfsBlocked)
Descendants(x) ==
    IF x = DfsStart THEN Covered \ {x}
    ELSE (Covered \ ReachAvoiding(Tree, {DfsStart}, DfsBlocked \cup {x})) \ {x}

\* the positions of the events `direction` of node x in the event sequence
EventIndices(x, direction) ==
    {k \in 1 .. Len(events) : events[k].idx = x /\ events[k].direction = direction}

(***************************************************************************)
(* C1  Reciprocity: in every state reached from the empty tree by calls of *)
(* the mutating operations, whether they succeed or fail, u is in          *)
(* adjacent(v) if and only if v is in adjacent(u), for all nodes u and v.  *)
(***************************************************************************)
C1_Reciprocity ==
    \A u, v \in NodeIds(Tree) :
        exist(adjacent(Tree, v), u) <=> exist(adjacent(Tree, u), v)

\* a successful spr that moved edges in a tree with a double edge or more
C1_Witness ==
    /\ Called("spr") /\ last.ret = "true"
    /\ Tree # pre
    /\ edge_count = 3

(***************************************************************************)
(* C2  Edge count: in every reachable state, after successful and failed   *)
(* calls alike, edge_size() is half the sum of the degrees of all nodes.   *)
(***************************************************************************)
C2_EdgeCount == 2 * edge_count = SumDegrees(Tree)

\* a call that returned failure after it had already removed edges
C2_Witness ==
    /\ last.ret = "false"
    /\ edge_count < pre.edge_count
    /\ edge_count > 0

(***************************************************************************)
(* C3  Round trip: add_edge(v,u) immediately followed by remove_edge(v,u)  *)
(* returns success and leaves the adjacency of every node (the ids and how *)
(* often each occurs) and the edge count as they were before the add_edge, *)
(* also when v and u are already adjacent and when v = u.                  *)
(***************************************************************************)
C3_RoundTrip ==
    Called("add_edge;remove_edge") =>
        /\ last.ret = "true"
        /\ node_size(Tree) = node_size(pre)
        /\ \A w \in NodeIds(pre) : SameBag(adjacent(Tree, w), adjacent(pre, w))
        /\ edge_count = pre.edge_count
        /\ root = pre.root

\* the round trip on two nodes that were adjacent before, u not being the last
\* neighbour of v
C3_Witness ==
    /\ Called("add_edge;remove_edge")
    /\ last.args[1] # last.args[2]
    /\ degree(pre, last.args[1]) >= 2
    /\ adjacent(pre, last.args[1])[1] = last.args[2]

(***************************************************************************)
(* C4  contract_chain_node(b) on a non-root node b whose adjacency is two  *)
(* distinct nodes a and c returns success; afterwards a and c are adjacent,*)
(* b is isolated, the edge count is one less, the node count is unchanged  *)
(* and the adjacency of every node other than a, b, c is unchanged.        *)
(***************************************************************************)
C4_Pre ==
    /\ Called("contract_chain_node")
    /\ last.args[1] # pre.root
    /\ degree(pre, last.args[1]) = 2
    /\ adjacent(pre, last.args[1])[1] # adjacent(pre, last.args[1])[2]

C4_ContractChainNode ==
    C4_Pre =>
        \E a, c \in NodeIds(pre) :
            /\ adjacent(pre, last.args[1]) = <<a, c>>
            /\ last.ret = "true"
            /\ exist(adjacent(Tree, a), c) /\ exist(adjacent(Tree, c), a)
            /\ degree(Tree, last.args[1]) = 0
            /\ edge_count = pre.edge_count - 1
            /\ node_size(Tree) = node_size(pre)
            /\ \A w \in NodeIds(pre) \ {a, last.args[1], c} :
                   adjacent(Tree, w) = adjacent(pre, w)

\* the contraction of the middle of a path whose end has one more neighbour
C4_Witness ==
    /\ C4_Pre
    /\ \E w \in NodeIds(pre) \ (Range(adjacent(pre, last.args[1])) \cup {last.args[1]}) :
           degree(Tree, w) = 1

(***************************************************************************)
(* C5  Traversal order: at every point of a depth-first traversal of a     *)
(* tree, from any start node, with or without a parent given: when a       *)
(* descendant d of a node x has been entered, x has been entered, and      *)
(* every Enter event of x comes strictly before every Enter event of d;    *)
(* when x has been left, d has been left, and every Leave event of d       *)
(* comes strictly before every Leave event of x.                           *)
(***************************************************************************)
C5_TraversalOrder ==
    (it.live /\ events # <<>>) =>
        \A x \in Covered : \A d \in Descendants(x) :
            /\ EventIndices(d, PREORDER) # {} => EventIndices(x, PREORDER) # {}
            /\ \A i \in EventIndices(x, PREORDER), j \in EventIndices(d, PREORDER) :
                   i < j
            /\ EventIndices(x, POSTORDER) # {} => EventIndices(d, POSTORDER) # {}
            /\ \A i \in EventIndices(x, POSTORDER), j \in EventIndices(d, POSTORDER) :
                   j < i

\* a traversal that has come to its end, started next to a parent, over a
\* node other than the start node that has a descendant and was left
C5_Witness ==
    /\ it.live
    /\ events # <<>>
    /\ at_end(Tree, it)
    /\ DfsBlocked # {}
    /\ \E x \in Covered \ {DfsStart} :
           /\ Descendants(x) # {}
           /\ EventIndices(x, POSTORDER) # {}

(***************************************************************************)
(* C6  spr(n, pn, u, v) with pn = u or pn = v returns success and leaves   *)
(* every adjacency list, the edge count, the node count and the root       *)
(* marker as they were.                                                    *)
(***************************************************************************)
C6_Pre == Called("spr") /\ (last.args[2] = last.args[3] \/ last.args[2] = last.args[4])

C6_SprTrivial == C6_Pre => last.ret = "true" /\ Tree = pre

\* the trivial call on a tree where n hangs off pn and pn has other neighbours,
\* pn being the second end of the target edge
C6_Witness ==
    /\ C6_Pre
    /\ last.args[2] = last.args[4] /\ last.args[2] # last.args[3]
    /\ exist(adjacent(pre, last.args[2]), last.args[1])
    /\ exist(adjacent(pre, last.args[3]), last.args[4])
    /\ degree(pre, last.args[2]) >= 2

(***************************************************************************)
(* C7  Star trim: in a star whose centre c is not the root and has exactly *)
(* the three leaves a, b, d, trim_leaf(a) returns success; removing (a,c)  *)
(* leaves c with degree 2, and the chain contraction that follows          *)
(* collapses c: the edge (b,d) is the only edge left, a and c are isolated.*)
(***************************************************************************)
\* t is a star with centre c of which a is a leaf
IsStar3(t, c, a) ==
    /\ t.edge_count = 3
    /\ degree(t, c) = 3
    /\ Cardinality(Range(adjacent(t, c))) = 3
    /\ a \in Range(adjacent(t, c))
    /\ \A x \in Range(adjacent(t, c)) : adjacent(t, x) = <<c>>

C7_Pre ==
    /\ Called("trim_leaf")
    /\ degree(pre, last.args[1]) = 1
    /\ IsStar3(pre, adjacent(pre, last.args[1])[1], last.args[1])
    /\ adjacent(pre, last.args[1])[1] # pre.root

C7_StarTrim ==
    C7_Pre =>
        \E c \in NodeIds(pre) :
            /\ adjacent(pre, last.args[1]) = <<c>>
            /\ last.ret = "true"
            /\ degree(remove_edge(pre, last.args[1], c).t, c) = 2
            /\ edge_count = 1
            /\ degree(Tree, last.args[1]) = 0
            /\ degree(Tree, c) = 0
            /\ \E b, d \in Range(adjacent(pre, c)) \ {last.args[1]} :
                   /\ b # d
                   /\ adjacent(Tree, b) = <<d>>
                   /\ adjacent(Tree, d) = <<b>>
            /\ node_size(Tree) = node_size(pre)

C7_Witness == C7_Pre /\ last.ret = "true" /\ root # NONODE

(***************************************************************************)
(* C8  A failing elementary operation changes nothing: when remove_edge    *)
(* (v and u not adjacent), contract_chain_node (degree not 2, or v the     *)
(* root) or trim_leaf (degree not 1) returns failure, the adjacency lists, *)
(* the edge count, the node count and the root marker are what they were.  *)
(***************************************************************************)
C8_FailureUnchanged ==
    /\ (Called("remove_edge") /\ last.ret = "false") =>
           /\ ~exist(adjacent(pre, last.args[1]), last.args[2])
           /\ Tree = pre
    /\ (Called("contract_chain_node") /\ last.ret = "false") =>
           /\ degree(pre, last.args[1]) # 2 \/ last.args[1] = pre.root
           /\ Tree = pre
    /\ (Called("trim_leaf") /\ last.ret = "false") =>
           /\ degree(pre, last.args[1]) # 1
           /\ Tree = pre

\* contract_chain_node refused on a chain node because it is the root
C8_Witness ==
    /\ Called("contract_chain_node") /\ last.ret = "false"
    /\ degree(pre, last.args[1]) = 2
    /\ last.args[1] = pre.root
    /\ adjacent(pre, last.args[1])[1] # adjacent(pre, last.args[1])[2]

(***************************************************************************)
(* C9  As claimed: reroot(n, pn, u, v) on an unrooted tree (the root       *)
(* marker is the no-node sentinel) returns false and leaves the tree       *)
(* unchanged.                                                              *)
(***************************************************************************)
C9_Pre == Called("reroot") /\ pre.root = NONODE

C9_RerootUnrootedFails == C9_Pre => last.ret = "false" /\ Tree = pre

(***************************************************************************)
(* C9 as amended: reroot never reads the root marker.  On an unrooted tree *)
(* it does what it does on a rooted one: with n = u or n = v it returns    *)
(* success and leaves the tree unchanged; otherwise it returns failure     *)
(* only when the edge (u,v) is missing or n carries a self-loop, and a     *)
(* success leaves n adjacent to u and to v.  The tree stays unrooted in    *)
(* every case.                                                             *)
(***************************************************************************)
C9_RerootIgnoresRoot ==
    C9_Pre =>
        /\ root = NONODE
        /\ (last.args[1] = last.args[3] \/ last.args[1] = last.args[4]) =>
               last.ret = "true" /\ Tree = pre
        /\ last.ret = "true" /\ last.args[1] # last.args[3] /\ last.args[1] # last.args[4] =>
               /\ exist(adjacent(Tree, last.args[1]), last.args[3])
               /\ exist(adjacent(Tree, last.args[1]), last.args[4])
               /\ edge_count >= pre.edge_count
        /\ last.ret = "false" =>
               /\ last.args[1] # last.args[3] /\ last.args[1] # last.args[4]
               /\ \/ ~exist(adjacent(pre, last.args[3]), last.args[4])
                  \/ exist(adjacent(pre, last.args[1]), last.args[1])

\* a successful reroot of an unrooted tree that moved n into the edge (u,v)
C9_Witness ==
    /\ C9_Pre
    /\ last.ret = "true"
    /\ Tree # pre
    /\ last.args[3] # last.args[4]

(***************************************************************************)
(* C10  is_connected() returns true if and only if all nodes of the        *)
(* non-empty store form one connected component, whatever the order of     *)
(* the node ids along the edges.                                           *)
(***************************************************************************)
C10_IsConnectedExact ==
    Called("is_connected") => (last.ret = "true" <=> Connected(pre))

(***************************************************************************)
(* C11  components() on a non-empty graph in which every node other than   *)
(* the smallest of its connected component has a neighbour with a smaller  *)
(* id returns the number of connected components; for two groups of nodes  *)
(* joined by no edge that is 2.                                            *)
(***************************************************************************)
C11_ComponentsAscending ==
    (Called("components") /\ AscendingIds(pre)) =>
        /\ last.ret = Cardinality(Components(pre))
        /\ Tree = pre

\* two groups of two nodes each, no edge between the groups
C11_Witness ==
    /\ Called("components")
    /\ AscendingIds(pre)
    /\ Cardinality(Components(pre)) = 2
    /\ \A C \in Components(pre) : Cardinality(C) = 2
    /\ last.ret = 2

(***************************************************************************)
(* C12  Euler tour: a finished Euler-tour traversal of a tree from a start *)
(* node s, with the sentinel or a neighbour of s for parent, that covers   *)
(* E edges has yielded exactly 2*E + 1 node ids, the first and the last of *)
(* them s, every two consecutive ids adjacent nodes, and every covered     *)
(* edge crossed exactly once in each direction.                            *)
(***************************************************************************)
C12_EulerTour ==
    (/\ it.live
     /\ it.view = "eulertour"
     /\ ~empty(Tree)
     /\ at_end(Tree, it)
     /\ ViewParent = NONODE \/ exist(adjacent(Tree, ViewStart), ViewParent)) =>
        /\ Len(Yielded) = 2 * (Cardinality(ViewCovered) - 1) + 1
        /\ Yielded[1] = ViewStart
        /\ Yielded[Len(Yielded)] = ViewStart
        /\ \A k \in 1 .. Len(Yielded) - 1 :
               exist(adjacent(Tree, Yielded[k]), Yielded[k + 1])
        /\ \A a \in ViewCovered, b \in ViewCovered :
               exist(adjacent(Tree, a), b) =>
                   Cardinality({k \in 1 .. Len(Yielded) - 1 :
                                   Yielded[k] = a /\ Yielded[k + 1] = b}) = 1

\* how many times a view has yielded node x
TimesYielded(x) == Cardinality({k \in 1 .. Len(Yielded) : Yielded[k] = x})

(***************************************************************************)
(* C13  Preorder and postorder coverage: in a traversal of a tree from s   *)
(* with parent p (the sentinel or a neighbour of s) the preorder view and  *)
(* the postorder view never yield a node twice nor a node that s reaches   *)
(* only through p or not at all, and when they are at their end they have  *)
(* yielded every node that s reaches without passing through p.            *)
(***************************************************************************)
C13_PrePostCoverage ==
    (/\ it.live
     /\ it.view \in {"preorder", "postorder"}
     /\ ~empty(Tree)
     /\ ViewParent = NONODE \/ exist(adjacent(Tree, ViewStart), ViewParent)) =>
        /\ \A x \in NodeIds(Tree) : TimesYielded(x) <= 1
        /\ \A k \in 1 .. Len(Yielded) : Yielded[k] \in ViewCovered
        /\ at_end(Tree, it) => \A x \in ViewCovered : TimesYielded(x) = 1

\* a finished postorder traversal that was given a parent, covered three
\* nodes and left the parent out
C13_Witness ==
    /\ it.live
    /\ it.view = "postorder"
    /\ ~empty(Tree)
    /\ at_end(Tree, it)
    /\ ViewBlocked # {}
    /\ Cardinality(ViewCovered) = 3
    /\ Len(Yielded) = 3
    /\ Yielded[3] = ViewStart

(***************************************************************************)
(* C14  Traversal termination: on a tree that is not changed meanwhile,    *)
(* each of the five views (raw depth-first, preorder, inorder, postorder,  *)
(* Euler tour), started at any node and incremented for as long as the     *)
(* host keeps it, with or without skip() calls in between, comes to equal  *)
(* its end iterator; an iterator that equals its end iterator still does   *)
(* after any further increment.                                            *)
(***************************************************************************)
C14_Terminates ==
    /\ \A view \in Views :
           (it.live /\ it.view = view) ~> (~it.live \/ at_end(Tree, it))
    /\ [][(it.live /\ at_end(Tree, it) /\ it'.live) => at_end(Tree', it')]_vars

\* a raw traversal of three nodes that came to its end after a skip() call
C14_Witness ==
    /\ it.live
    /\ it.view = "dfs"
    /\ at_end(Tree, it)
    /\ Len(skipped) = 1
    /\ Len(events) >= 6
    /\ node_size(Tree) = 3

\* the number of edges of the shortest path from a node of S to node b,
\* counted from k
RECURSIVE Dist(_, _, _, _)
Dist(t, S, b, k) ==
    IF b \in S THEN k
    ELSE Dist(t, S \cup {j \in NodeIds(t) : \E i \in S : exist(adjacent(t, i), j)},
              b, k + 1)

(***************************************************************************)
(* C15  Exposed depth and parent: at every event of a traversal, started   *)
(* without argument or at a (node, parent) pair, lvl is the number of      *)
(* edges between the start node and the current node, which is the stack   *)
(* height minus one, and the exposed parent is the node one stack frame    *)
(* below the current node, the no-node sentinel at the start node.         *)
(***************************************************************************)
C15_ExposedDepthParent ==
    (/\ it.live
     /\ events # <<>>
     /\ ~at_end(Tree, it)
     /\ ViewParent = NONODE \/ exist(adjacent(Tree, ViewStart), ViewParent)) =>
        /\ it.lvl = Dist(Tree, {DfsStart}, it.idx, 0)
        /\ it.lvl = Len(it.dfs_stack) - 1
        /\ it.parent = IF it.idx = DfsStart THEN NONODE
                       ELSE it.dfs_stack[Len(it.dfs_stack) - 1].first

\* the events the engine shows from iterator i on when skip() is not called
RECURSIVE EventsFrom(_, _, _)
EventsFrom(t, i, shown) ==
    Only({IF dfs_end(n) THEN shown ELSE EventsFrom(t, n, Append(shown, event(n)))
          : n \in {dfs_next(t, i)}})

\* the traversal of the same tree from the same start without skip()
Unskipped ==
    Only({EventsFrom(Tree, i, <<event(i)>>)
          : i \in {dfs_init_v_p(Tree, ViewStart, ViewParent)}})

IsPrefix(a, b) == Len(a) <= Len(b) /\ SubSeq(b, 1, Len(a)) = a

\* the one skip() call of the traversal was made at the Enter event of a node
SkippedAtEnter ==
    /\ it.live
    /\ Len(skipped) = 1
    /\ events[skipped[1]].direction = PREORDER
SkippedNode == events[skipped[1]].idx

\* the events in a sequence that belong to nodes outside the subtree of x
Outside(shown, x) ==
    SelectSeq(shown, LAMBDA e : e.idx # x /\ e.idx \notin Descendants(x))

(***************************************************************************)
(* C16  skip(): after a skip() call made while the traversal is at the     *)
(* Enter event of node x no descendant of x is emitted, the Leave event of *)
(* x is emitted before the traversal ends, the events of the nodes outside *)
(* the subtree of x are those of the traversal without the skip, in the    *)
(* same order, and the tree (adjacency lists, edge count, node count, root *)
(* marker) is what it was.                                                 *)
(***************************************************************************)
C16_Skip ==
    SkippedAtEnter =>
        /\ \A j \in skipped[1] + 1 .. Len(events) :
               events[j].idx \notin Descendants(SkippedNode)
        /\ IsPrefix(Outside(events, SkippedNode), Outside(Unskipped, SkippedNode))
        /\ at_end(Tree, it) =>
               /\ \E j \in skipped[1] + 1 .. Len(events) :
                      events[j].idx = SkippedNode /\ events[j].direction = POSTORDER
               /\ Outside(events, SkippedNode) = Outside(Unskipped, SkippedNode)
        /\ Tree = pre

\* a finished traversal in which the subtree of a node other than the start
\* node was skipped, the node has a descendant, and a node outside the
\* subtree was entered after the skip
C16_Witness ==
    /\ SkippedAtEnter
    /\ at_end(Tree, it)
    /\ SkippedNode # DfsStart
    /\ Descendants(SkippedNode) # {}
    /\ \E j \in skipped[1] + 1 .. Len(events) :
           /\ events[j].direction = PREORDER
           /\ events[j].idx \notin Descendants(SkippedNode)

\* the steps trim_leaf(ids[1]), trim_leaf(ids[2]), ... made one after the
\* other from tree t up to the first that fails: the tree the steps before
\* the failing one have made, and whether all succeeded
TrimUpToFailure(t, ids) ==
    LET F[j \in 0 .. Len(ids)] ==
            IF j = 0 THEN [t |-> t, ok |-> TRUE]
            ELSE IF ~F[j - 1].ok THEN F[j - 1]
            ELSE IF trim_leaf(F[j - 1].t, ids[j]).ret
                 THEN [t |-> trim_leaf(F[j - 1].t, ids[j]).t, ok |-> TRUE]
                 ELSE [t |-> F[j - 1].t, ok |-> FALSE]
    IN  F[Len(ids)]

\* the same for contract_chain_node(0), contract_chain_node(1), ...
ContractUpToFailure(t) ==
    LET F[j \in 0 .. node_size(t)] ==
            IF j = 0 THEN [t |-> t, ok |-> TRUE]
            ELSE IF ~F[j - 1].ok THEN F[j - 1]
            ELSE IF contract_chain_node(F[j - 1].t, j - 1).ret
                 THEN [t |-> contract_chain_node(F[j - 1].t, j - 1).t, ok |-> TRUE]
                 ELSE [t |-> F[j - 1].t, ok |-> FALSE]
    IN  F[node_size(t)]

(***************************************************************************)
(* C17  Abort at the first failure, no rollback: trim_leaves(ids) leaves   *)
(* the tree that the trim_leaf steps of the ids before the first failing   *)
(* id have made, in the order given, and returns failure when one failed;  *)
(* contract_all_chains() does the same with contract_chain_node over the   *)
(* ids 0..N-1.  No step is made for an id after the failing one.           *)
(***************************************************************************)
C17_AbortNoRollback ==
    /\ Called("trim_leaves") =>
           /\ Tree = TrimUpToFailure(pre, last.args[1]).t
           /\ last.ret = B(TrimUpToFailure(pre, last.args[1]).ok)
    /\ Called("contract_all_chains") =>
           /\ Tree = ContractUpToFailure(pre).t
           /\ last.ret = B(ContractUpToFailure(pre).ok)

\* trim_leaves of a leaf and then of a node that is no leaf by then: the
\* first is trimmed, the call fails
C17_Witness ==
    /\ Called("trim_leaves")
    /\ Len(last.args[1]) = 2
    /\ last.ret = "false"
    /\ Tree # pre
    /\ degree(pre, last.args[1][1]) = 1
    /\ degree(Tree, last.args[1][1]) = 0

(***************************************************************************)
(* C18  contract_all_chains() contracts all chain nodes: when it has       *)
(* returned, called on a tree (no cycle, no edge twice), no node of the    *)
(* tree other than the root has degree 2.                                  *)
(***************************************************************************)
C18_NoChainNodeLeft ==
    (Called("contract_all_chains") /\ IsForest(pre)) =>
        \A v \in NodeIds(Tree) : v # Tree.root => degree(Tree, v) # 2

\* tr is the way the root went from tree t to tree t2: it starts at the root
\* of t and ends at the root of t2, every step is an edge of t, every node
\* of it but the last is isolated in t2, and t2 is t without the edges of
\* the way
IsRootTrail(t, t2, tr) ==
    /\ tr[1] = t.root
    /\ tr[Len(tr)] = t2.root
    /\ \A j \in 1 .. Len(tr) - 1 :
           /\ exist(adjacent(t, tr[j]), tr[j + 1])
           /\ tr[j] # t2.root
           /\ degree(t2, tr[j]) = 0
    /\ SameBag(Append(adjacent(t2, t2.root), tr[Len(tr) - 1]), adjacent(t, t2.root))
    /\ t2.edge_count = t.edge_count - (Len(tr) - 1)
    /\ node_size(t2) = node_size(t)
    /\ \A v \in NodeIds(t) \ Range(tr) : adjacent(t2, v) = adjacent(t, v)

(***************************************************************************)
(* C19  trim_root(): on an unrooted tree and on a tree whose root has a    *)
(* degree other than 1 it returns failure and changes nothing.  Otherwise  *)
(* it returns success, having taken away the edge between the root and    *)
(* its single neighbour and moved the root marker to that neighbour, again *)
(* and again until the root has a degree other than 1: the tree is still   *)
(* rooted, degree(root) # 1, and every node that was root on the way is    *)
(* isolated.                                                               *)
(***************************************************************************)
C19_TrimRoot ==
    Called("trim_root") =>
        IF ~is_rooted(pre) \/ degree(pre, pre.root) # 1
        THEN last.ret = "false" /\ Tree = pre
        ELSE /\ last.ret = "true"
             /\ is_rooted(Tree)
             /\ degree(Tree, Tree.root) # 1
             /\ \E k \in 2 .. node_size(pre) :
                    \E tr \in [1 .. k -> NodeIds(pre)] : IsRootTrail(pre, Tree, tr)

\* a trim_root on a tree that moved the root down twice
C19_Witness ==
    /\ Called("trim_root")
    /\ IsForest(pre)
    /\ last.ret = "true"
    /\ edge_count = pre.edge_count - 2
    /\ root # pre.root

(***************************************************************************)
(* C20  trim_leaves_rooted(ids) returns the status of trim_leaves(ids) on  *)
(* the same tree and applies trim_root() to the tree the leaf trimming     *)
(* left, also when the trimming failed part-way: the tree after the call   *)
(* is that tree, with the root moved down as trim_root() does if it was    *)
(* rooted with a root of degree 1, and a rooted tree has no root of        *)
(* degree 1 after the call.                                                *)
(***************************************************************************)
C20_TrimLeavesRooted ==
    Called("trim_leaves_rooted") =>
        \E mid \in {TrimUpToFailure(pre, last.args[1])} :
            /\ last.ret = B(mid.ok)
            /\ is_rooted(Tree) <=> is_rooted(pre)
            /\ is_rooted(Tree) => degree(Tree, Tree.root) # 1
            /\ IF is_rooted(mid.t) /\ degree(mid.t, mid.t.root) = 1
               THEN \E k \in 2 .. node_size(pre) :
                        \E tr \in [1 .. k -> NodeIds(pre)] : IsRootTrail(mid.t, Tree, tr)
               ELSE Tree = mid.t

\* leaf trimming that failed at its second id after it trimmed the first,
\* followed by a trim_root that moved the root
C20_Witness ==
    /\ Called("trim_leaves_rooted")
    /\ IsForest(pre)
    /\ last.ret = "false"
    /\ Len(last.args[1]) = 2
    /\ degree(pre, last.args[1][1]) = 1
    /\ root # pre.root
    /\ root # NONODE

\* what C21 says of the root marker: spr_from_root sets it to r, spr and
\* reroot keep it, and so do the calls that return at once
RootMarkerRules ==
    /\ (Called("spr_to_root") /\ last.ret = "true" /\ last.args[2] # pre.root) =>
           root = last.args[2]
    /\ (Called("spr_from_root") /\ last.ret = "true"
            /\ pre.root \notin {last.args[3], last.args[4]}) =>
           root = last.args[2]
    /\ (Called("spr") \/ Called("reroot")) => root = pre.root
    /\ (Called("spr_to_root")
            /\ (~is_rooted(pre) \/ pre.root \in {last.args[1], last.args[2]})) =>
           Tree = pre
    /\ (Called("spr_from_root")
            /\ (~is_rooted(pre) \/ pre.root \in {last.args[3], last.args[4]})) =>
           Tree = pre

(***************************************************************************)
(* C21  Root reassignment: a successful spr_to_root(u, pu) with pu # root  *)
(* sets the root marker to pu and leaves pu adjacent to exactly u and the  *)
(* former root; a successful spr_from_root(c, r, u, v) with root not in    *)
(* {u, v} sets the root marker to r; spr and reroot never change the root  *)
(* marker; the calls of the four operations that return at once leave the  *)
(* root marker unchanged.                                                  *)
(***************************************************************************)
C21_RootReassignment ==
    /\ RootMarkerRules
    /\ (Called("spr_to_root") /\ last.ret = "true" /\ last.args[2] # pre.root) =>
           Range(adjacent(Tree, last.args[2])) = {last.args[1], pre.root}

(***************************************************************************)
(* C21 (amended)  As C21, with pu left adjacent to exactly u and the       *)
(* former root when u was adjacent to pu before the call; when it was not, *)
(* pu is left adjacent to the former root alone.                           *)
(***************************************************************************)
C21_RootReassignmentOfChild ==
    /\ RootMarkerRules
    /\ (Called("spr_to_root") /\ last.ret = "true" /\ last.args[2] # pre.root) =>
           Range(adjacent(Tree, last.args[2])) =
               IF exist(adjacent(pre, last.args[2]), last.args[1])
               THEN {last.args[1], pre.root} ELSE {pre.root}

\* a successful spr_to_root of a child u of pu, pu with two more neighbours
C21_Witness ==
    /\ Called("spr_to_root")
    /\ last.ret = "true"
    /\ last.args[2] # pre.root
    /\ exist(adjacent(pre, last.args[2]), last.args[1])
    /\ degree(pre, last.args[2]) = 3
    /\ root = last.args[2]

\* bounds of the store the children overloads are called on
MaxChildNodes == 3
MaxChildEdges == 3

\* ChildrenList::size() of children(v, parent)
ChildrenList_size(t, v, parent) ==
    IF exist(adjacent(t, v), parent) THEN degree(t, v) - 1 ELSE degree(t, v)

\* BOOST_FOREACH(u, children(v, parent)): the cursor w is compared with the
\* end by ChildrenList::Iterator::operator==, read by operator* and stepped
\* by operator++; acc are the ids read so far. past_end tells that operator*
\* read one past the end of the adjacency list, where the loop is left to
\* undefined behaviour
RECURSIVE ChildrenList_foreach(_, _, _)
ChildrenList_foreach(t, w, acc) ==
    Only({IF e.eq THEN [yields |-> acc, past_end |-> FALSE]
          ELSE Only({IF d.past_end THEN [yields |-> acc, past_end |-> TRUE]
                     ELSE ChildrenList_foreach(t, [d.w EXCEPT !.second = @ + 1],
                                               Append(acc, d.value))
                     : d \in {Iterator_deref(t, e.w)}})
          : e \in {Iterator_eq(t, w)}})

\* the iterable view children(v, parent), run through from begin() to end()
children(t, v, parent) == ChildrenList_foreach(t, dfs_item(t, v, parent), <<>>)

\* children(v, parent, arr): the ids written to arr and the count returned
children_array(t, v, parent) ==
    Only({[n |-> Len(arr), arr |-> arr]
          : arr \in {SelectSeq(adjacent(t, v), LAMBDA u : u # parent)}})

\* the host runs through children(v, parent) and asks its size()
do_children ==
    /\ Idle
    /\ \E v \in NodeIds(Tree), parent \in NodeIds(Tree) \cup {NONODE} :
           Call("children", <<v, parent>>, Tree,
                [size |-> ChildrenList_size(Tree, v, parent),
                 view |-> children(Tree, v, parent)],
                MaxChildNodes, MaxChildEdges)

\* the host calls children(v, parent, vec) with an empty vec
do_children_vec ==
    /\ Idle
    /\ \E v \in NodeIds(Tree), parent \in NodeIds(Tree) \cup {NONODE} :
       \E r \in ReserveOutcomes(Tree, v) :
           Call("children_vec", <<v, parent>>, Tree,
                IF r = "throw" THEN <<"throw">> ELSE children_vector(Tree, v, parent),
                MaxChildNodes, MaxChildEdges)

\* the host calls children(v, parent, arr) with an array that is large enough
do_children_arr ==
    /\ Idle
    /\ \E v \in NodeIds(Tree), parent \in NodeIds(Tree) \cup {NONODE} :
           Call("children_arr", <<v, parent>>, Tree,
                children_array(Tree, v, parent), MaxChildNodes, MaxChildEdges)

\* a host that builds a graph and looks at the children of its nodes
NextChildren ==
    \/ result_taken
    \/ do_new_node(MaxChildNodes, MaxChildEdges)
    \/ do_add_edge(MaxChildNodes, MaxChildEdges)
    \/ do_children
    \/ do_children_vec
    \/ do_children_arr

SpecChildren == Init /\ [][NextChildren]_vars

\* seq is data with exactly one occurrence of v taken out, or data itself
\* when v does not occur in it
OneOccurrenceRemoved(data, v, seq) ==
    IF exist(data, v)
    THEN \E k \in 1 .. Len(data) :
             /\ data[k] = v
             /\ seq = SubSeq(data, 1, k - 1) \o SubSeq(data, k + 1, Len(data))
    ELSE seq = data

(***************************************************************************)
(* C22  ChildrenView: in every reachable state (a neighbour may occur more *)
(* than once in an adjacency list), for every node v and id parent the     *)
(* children view of (v, parent) yields adjacent(v) with exactly one        *)
(* occurrence of parent removed if parent occurs and the whole adjacency   *)
(* list otherwise; size() is the number of ids the view yields; the        *)
(* overloads that fill a vector and an array yield the ids the view does.  *)
(***************************************************************************)
C22_ChildrenView ==
    /\ Called("children") =>
           /\ ~last.ret.view.past_end
           /\ OneOccurrenceRemoved(adjacent(pre, last.args[1]), last.args[2],
                                   last.ret.view.yields)
           /\ last.ret.size = Len(last.ret.view.yields)
    /\ Called("children_vec") =>
           last.ret = children(pre, last.args[1], last.args[2]).yields
    /\ Called("children_arr") =>
           /\ last.ret.arr = children(pre, last.args[1], last.args[2]).yields
           /\ last.ret.n = Len(last.ret.arr)

\* the same on nodes whose adjacency list holds the parent at most once and
\* that have a neighbour
C22_ChildrenViewNoDuplicate ==
    (/\ Called("children") \/ Called("children_vec") \/ Called("children_arr")
     /\ Count(adjacent(pre, last.args[1]), last.args[2]) <= 1
     /\ degree(pre, last.args[1]) > 0)
        => C22_ChildrenView
\* the nodes that have a neighbour
NonIsolated(t) == {v \in NodeIds(t) : degree(t, v) > 0}

\* the nodes that have a neighbour form one tree: no edge from a node to
\* itself, no edge twice, every edge in both lists, one edge less than nodes,
\* and every such node reached from one of them
IsTree(t) ==
    /\ NonIsolated(t) # {}
    /\ \A v \in NodeIds(t) : \A u \in Range(adjacent(t, v)) :
           /\ u # v
           /\ Count(adjacent(t, v), u) = 1
           /\ exist(adjacent(t, u), v)
    /\ SumDegrees(t) = 2 * (Cardinality(NonIsolated(t)) - 1)
    /\ NonIsolated(t) \subseteq Reach(t, {CHOOSE v \in NonIsolated(t) : TRUE})

(***************************************************************************)
(* C23  contract_edge(v, u) on a tree in which v and u are adjacent: u is  *)
(* isolated afterwards, every former neighbour of u other than v is        *)
(* adjacent to v, every former neighbour of v other than u is still        *)
(* adjacent to v, the edge count is one less and the node count is the     *)
(* same.                                                                   *)
(***************************************************************************)
C23_ContractEdge ==
    (/\ Called("contract_edge")
     /\ IsTree(pre)
     /\ exist(adjacent(pre, last.args[1]), last.args[2]))
        => /\ degree(Tree, last.args[2]) = 0
           /\ \A w \in Range(adjacent(pre, last.args[2])) \ {last.args[1]} :
                  /\ exist(adjacent(Tree, last.args[1]), w)
                  /\ exist(adjacent(Tree, w), last.args[1])
           /\ \A w \in Range(adjacent(pre, last.args[1])) \ {last.args[2]} :
                  /\ exist(adjacent(Tree, last.args[1]), w)
                  /\ exist(adjacent(Tree, w), last.args[1])
           /\ edge_count = pre.edge_count - 1
           /\ node_size(Tree) = node_size(pre)

\* the edge in the middle of a path of four nodes was contracted
C23_Witness ==
    /\ Called("contract_edge")
    /\ IsTree(pre)
    /\ exist(adjacent(pre, last.args[1]), last.args[2])
    /\ degree(pre, last.args[1]) = 2
    /\ degree(pre, last.args[2]) = 2
    /\ degree(Tree, last.args[2]) = 0
    /\ degree(Tree, last.args[1]) = 2
\* bounds of the store chains are contracted on
MaxChainNodes == 5
MaxChainEdges == 4

\* a host that builds a graph, may root it, and contracts chains
NextChain ==
    \/ result_taken
    \/ do_new_node(MaxChainNodes, MaxChainEdges)
    \/ do_set_root(MaxChainNodes, MaxChainEdges)
    \/ do_add_edge(MaxChainNodes, MaxChainEdges)
    \/ do_contract_chain(MaxChainNodes, MaxChainEdges)

SpecChain == Init /\ [][NextChain]_vars

\* the maximal connected run of nodes of degree 2 that holds v, for a v of
\* degree 2
ChainRun(t, v) == ReachAvoiding(t, {v}, {x \in NodeIds(t) : degree(t, x) # 2})

\* the nodes outside the run that have a neighbour in it
ChainBounds(t, v) ==
    {y \in NodeIds(t) \ ChainRun(t, v) :
        \E x \in ChainRun(t, v) : exist(adjacent(t, x), y)}

(***************************************************************************)
(* C24  contract_chain cascade: in an unrooted tree contract_chain(v) on a *)
(* node v of degree 2 terminates; afterwards every node of the maximal     *)
(* connected run of degree-2 nodes that holds v is isolated, the two nodes *)
(* that bound the run are joined by an edge, and every node outside the    *)
(* run has the degree it had.                                              *)
(***************************************************************************)
C24_ContractChainCascade ==
    /\ \A v \in NodeIds(Tree) :
           (Idle /\ IsTree(Tree) /\ ~is_rooted(Tree) /\ degree(Tree, v) = 2)
               => contract_chain(Tree, v).term
    /\ (/\ Called("contract_chain")
        /\ IsTree(pre)
        /\ ~is_rooted(pre)
        /\ degree(pre, last.args[1]) = 2)
           => /\ \A x \in ChainRun(pre, last.args[1]) : degree(Tree, x) = 0
              /\ Cardinality(ChainBounds(pre, last.args[1])) = 2
              /\ \A a, b \in ChainBounds(pre, last.args[1]) :
                     a # b => /\ exist(adjacent(Tree, a), b)
                              /\ exist(adjacent(Tree, b), a)
              /\ \A y \in NodeIds(pre) \ ChainRun(pre, last.args[1]) :
                     degree(Tree, y) = degree(pre, y)

\* contract_chain was called on the middle node of a run of three
C24_Witness ==
    /\ Called("contract_chain")
    /\ IsTree(pre)
    /\ ~is_rooted(pre)
    /\ degree(pre, last.args[1]) = 2
    /\ Cardinality(ChainRun(pre, last.args[1])) = 3
    /\ \A x \in Range(adjacent(pre, last.args[1])) : degree(pre, x) = 2
    /\ \A x \in ChainRun(pre, last.args[1]) : degree(Tree, x) = 0
    /\ edge_count = 1

(***************************************************************************)
(* C25  contract_chain result: contract_chain(v) reports failure only when *)
(* it meets a node that cannot be contracted (a node of degree other than  *)
(* 2, or the root); when v and every node reachable from v through nodes   *)
(* of degree 2 are nodes of degree 2 other than the root, it returns       *)
(* success.                                                                *)
(***************************************************************************)
C25_ContractChainResult ==
    (Called("contract_chain") /\ IsTree(pre))
        => /\ last.ret = "false" =>
                  \E u \in NodeIds(Tree) : degree(Tree, u) # 2 \/ u = root
           /\ (/\ degree(pre, last.args[1]) = 2
               /\ \A x \in ChainRun(pre, last.args[1]) : x # pre.root)
                  => last.ret = "true"

\* the same for a v that has at most one neighbour of degree 2
C25_ContractChainResultFromEnd ==
    (Called("contract_chain") /\ IsTree(pre))
        => /\ last.ret = "false" =>
                  \E u \in NodeIds(Tree) : degree(Tree, u) # 2 \/ u = root
           /\ (/\ degree(pre, last.args[1]) = 2
               /\ \A x \in ChainRun(pre, last.args[1]) : x # pre.root
               /\ Cardinality({x \in Range(adjacent(pre, last.args[1])) :
                                   degree(pre, x) = 2}) <= 1)
                  => last.ret = "true"
\* the number of children node x has in the traversal: its neighbours among
\* the nodes of the traversal, less the one it was entered from
ChildrenInTraversal(x) ==
    Cardinality(Range(adjacent(Tree, x)) \cap ViewCovered)
        - (IF x = ViewStart THEN 0 ELSE 1)

\* the events of the engine for the begin_ call of the traversal, run to its
\* end without skip(), and the Between events among them
EngineEvents ==
    Only({EventsFrom(Tree, i, <<event(i)>>)
          : i \in {IF Len(last.args) = 0 THEN dfs_init(Tree)
                   ELSE dfs_init_v_p(Tree, ViewStart, ViewParent)}})
EngineBetweens == SelectSeq(EngineEvents, LAMBDA e : e.direction = INORDER)

(***************************************************************************)
(* C26  Between events: in a traversal without skip() the engine emits     *)
(* Between exactly once for a node that has no children in the traversal   *)
(* and exactly k-1 times for a node that has k >= 1 children; the inorder  *)
(* view yields exactly these events, in the order of the engine.           *)
(***************************************************************************)
C26_BetweenEvents ==
    /\ (it.live /\ it.view = "dfs" /\ ~empty(Tree) /\ at_end(Tree, it)) =>
           \A x \in NodeIds(Tree) :
               Cardinality(EventIndices(x, INORDER)) =
                   IF x \notin ViewCovered THEN 0
                   ELSE IF ChildrenInTraversal(x) = 0 THEN 1
                   ELSE ChildrenInTraversal(x) - 1
    /\ (it.live /\ it.view = "inorder" /\ ~empty(Tree)) =>
           /\ IsPrefix(events, EngineBetweens)
           /\ at_end(Tree, it) => events = EngineBetweens

\* a finished traversal of the engine from a node with three children, two
\* Between events for it and one for each of its children
C26_Witness ==
    /\ it.live
    /\ it.view = "dfs"
    /\ ~empty(Tree)
    /\ at_end(Tree, it)
    /\ ChildrenInTraversal(ViewStart) = 3
    /\ Cardinality(EventIndices(ViewStart, INORDER)) = 2
    /\ \A x \in ViewCovered \ {ViewStart} : Cardinality(EventIndices(x, INORDER)) = 1
\* bounds of the tree subtrees are moved in; a move may make one node and
\* one edge more
MaxSprNodes == 6
MaxSprEdges == 5

\* the host hangs the node it made last, u, as a leaf on node v of the tree
\* it grows
do_add_leaf(N, E) ==
    /\ Idle
    /\ \E v, u \in NodeIds(Tree) :
           /\ v # u
           /\ u = node_size(Tree) - 1
           /\ degree(Tree, u) = 0
           /\ degree(Tree, v) > 0 \/ edge_count = 0
           /\ Call("add_edge", <<v, u>>, add_edge(Tree, v, u), "void", N, E)

\* the host moves the subtree of n, hanging on pn, into an edge (u,v) on the
\* side of pn
do_spr_on_tree(N, E) ==
    /\ Idle
    /\ node_size(Tree) < N
    /\ IsTree(Tree)
    /\ \E n, pn \in NodeIds(Tree) :
           /\ exist(adjacent(Tree, pn), n)
           /\ \E u, v \in ReachAvoiding(Tree, {pn}, {n}) :
                  /\ exist(adjacent(Tree, u), v)
                  /\ \E r \in {spr(Tree, n, pn, u, v)} :
                         Call("spr", <<n, pn, u, v>>, r.t, B(r.ret), N, E)

\* a host that grows a tree leaf by leaf and moves subtrees in it
NextSpr ==
    \/ result_taken
    \/ do_new_node(MaxSprNodes, MaxSprEdges)
    \/ do_add_leaf(MaxSprNodes, MaxSprEdges)
    \/ do_spr_on_tree(MaxSprNodes + 1, MaxSprEdges + 1)

SpecSpr == Init /\ [][NextSpr]_vars

\* spr(n, pn, u, v) was called on a tree with n adjacent to pn, pn not in
\* {u, v} and (u,v) an edge on the side of pn of the edge (n,pn)
SprMove ==
    /\ Called("spr")
    /\ IsTree(pre)
    /\ last.args[2] \notin {last.args[3], last.args[4]}
    /\ exist(adjacent(pre, last.args[2]), last.args[1])
    /\ exist(adjacent(pre, last.args[3]), last.args[4])
    /\ {last.args[3], last.args[4]}
           \subseteq ReachAvoiding(pre, {last.args[2]}, {last.args[1]})

\* the neighbours pn had other than n
SprSiblings == Range(adjacent(pre, last.args[2])) \ {last.args[1]}

Adjacent(t, a, b) == exist(adjacent(t, a), b) /\ exist(adjacent(t, b), a)

(***************************************************************************)
(* C27  spr graft: after a successful spr(n, pn, u, v) with pn not in      *)
(* {u, v}, on a tree where n is adjacent to pn and (u,v) is an edge        *)
(* outside the subtree of n: pn is adjacent to u and to v, u and v are no  *)
(* longer adjacent, n is still adjacent to pn, and if pn had exactly two   *)
(* neighbours other than n, those two are now adjacent.                    *)
(***************************************************************************)
C27_SprGraft ==
    (SprMove /\ last.ret = "true")
        => /\ Adjacent(Tree, last.args[2], last.args[3])
           /\ Adjacent(Tree, last.args[2], last.args[4])
           /\ ~exist(adjacent(Tree, last.args[3]), last.args[4])
           /\ ~exist(adjacent(Tree, last.args[4]), last.args[3])
           /\ Adjacent(Tree, last.args[1], last.args[2])
           /\ Cardinality(SprSiblings) = 2 =>
                  \A a, b \in SprSiblings : a # b => Adjacent(Tree, a, b)

\* a move whose pn had exactly two neighbours other than n
C27_Witness ==
    /\ SprMove
    /\ last.ret = "true"
    /\ Cardinality(SprSiblings) = 2
    /\ Range(adjacent(Tree, last.args[2]))
           = {last.args[1], last.args[3], last.args[4]}

(***************************************************************************)
(* C28  SPR keeps a tree a tree: if the non-isolated nodes form a tree, n  *)
(* is adjacent to pn, pn is not in {u, v} and (u,v) is an edge on the side *)
(* of pn of the edge (n,pn), then spr(n, pn, u, v) returns success and the *)
(* non-isolated nodes again form a tree: connected, acyclic, with one edge *)
(* less than there are non-isolated nodes.                                 *)
(***************************************************************************)
C28_SprKeepsTree ==
    SprMove
        => /\ last.ret = "true"
           /\ IsTree(Tree)
           /\ edge_count = Cardinality(NonIsolated(Tree)) - 1

\* a move whose pn had three neighbours other than n, which a new node joins
C28_Witness ==
    /\ SprMove
    /\ last.ret = "true"
    /\ Cardinality(SprSiblings) = 3
    /\ node_size(Tree) = node_size(pre) + 1
    /\ SprSiblings \subseteq Range(adjacent(Tree, node_size(pre)))
\* bounds of the store leaves are trimmed from
MaxTrimNodes == 5
MaxTrimEdges == 4

\* a host that builds a graph, may root it, and trims leaves
NextTrim ==
    \/ result_taken
    \/ do_new_node(MaxTrimNodes, MaxTrimEdges)
    \/ do_set_root(MaxTrimNodes, MaxTrimEdges)
    \/ do_add_edge(MaxTrimNodes, MaxTrimEdges)
    \/ do_trim_leaf(MaxTrimNodes, MaxTrimEdges)

SpecTrim == Init /\ [][NextTrim]_vars

\* no node other than the root has degree 2
NoChainNode(t) == \A x \in NodeIds(t) : x # t.root => degree(t, x) # 2

\* trim_leaf(v) was called on a leaf v of a tree without chain nodes
TrimOnChainFreeTree ==
    /\ Called("trim_leaf")
    /\ degree(pre, last.args[1]) = 1
    /\ IsTree(pre)
    /\ NoChainNode(pre)

(***************************************************************************)
(* C29  Trimming keeps a tree free of chain nodes: if before trim_leaf(v)  *)
(* with degree(v) = 1 on a tree no node other than the root has degree 2,  *)
(* then after the call, which returns success even if the contraction in   *)
(* it fails, no node other than the root has degree 2, v is isolated, and  *)
(* every node other than v and its former neighbour has the degree it had. *)
(***************************************************************************)
C29_TrimKeepsChainFree ==
    TrimOnChainFreeTree
        => /\ last.ret = "true"
           /\ NoChainNode(Tree)
           /\ degree(Tree, last.args[1]) = 0
           /\ \A x \in NodeIds(pre) \ {last.args[1], adjacent(pre, last.args[1])[1]} :
                  degree(Tree, x) = degree(pre, x)

\* the neighbour of the trimmed leaf became a chain node next to a root of
\* degree 2: it was contracted, and the contraction failed at the root
C29_Witness ==
    /\ TrimOnChainFreeTree
    /\ last.ret = "true"
    /\ degree(pre, adjacent(pre, last.args[1])[1]) = 3
    /\ adjacent(pre, last.args[1])[1] # pre.root
    /\ is_rooted(pre)
    /\ degree(pre, pre.root) = 2
    /\ exist(adjacent(pre, adjacent(pre, last.args[1])[1]), pre.root)
    /\ degree(Tree, adjacent(pre, last.args[1])[1]) = 0
    /\ ~contract_chain(remove_edge(pre, last.args[1], adjacent(pre, last.args[1])[1]).t,
                       adjacent(pre, last.args[1])[1]).ret
\* a host that uses every operation that changes the store, the subtree
\* moves on the small store, and asks for connectivity in between
NextScan ==
    \/ result_taken
    \/ do_clear(MaxEditNodes, MaxEditEdges)
    \/ do_new_node(MaxEditNodes, MaxEditEdges)
    \/ do_set_root(MaxEditNodes, MaxEditEdges)
    \/ do_unroot(MaxEditNodes, MaxEditEdges)
    \/ do_add_edge(MaxEditNodes, MaxEditEdges)
    \/ do_remove_edge(MaxEditNodes, MaxEditEdges)
    \/ do_disconnect_node(MaxEditNodes, MaxEditEdges)
    \/ do_contract_edge(MaxEditNodes, MaxEditEdges)
    \/ do_contract_chain_node(MaxEditNodes, MaxEditEdges)
    \/ do_contract_chain(MaxEditNodes, MaxEditEdges)
    \/ do_contract_all_chains(MaxEditNodes, MaxEditEdges)
    \/ do_trim_leaf(MaxEditNodes, MaxEditEdges)
    \/ do_trim_root(MaxEditNodes, MaxEditEdges)
    \/ do_spr_to_root(MaxNodes, MaxEdges)
    \/ do_spr_from_root(MaxNodes, MaxEdges)
    \/ do_spr(MaxNodes, MaxEdges)
    \/ do_reroot(MaxNodes, MaxEdges)
    \/ do_is_connected(MaxEditNodes, MaxEditEdges)
    \/ do_components(MaxEditNodes, MaxEditEdges)

SpecScan == Init /\ [][NextScan]_vars

(***************************************************************************)
(* C30  The connectivity scan errs on one side only: on every non-empty    *)
(* graph reached through the mutating operations components() is never     *)
(* smaller than the number of connected components (an isolated node is a  *)
(* component), and is_connected() never returns true for a graph that is   *)
(* not connected.                                                          *)
(***************************************************************************)
C30_ScanOneSided ==
    /\ Called("components") => last.ret >= Cardinality(Components(pre))
    /\ (Called("is_connected") /\ last.ret = "true") => Connected(pre)

\* components() counted three on a graph of two components, one of them with
\* a node whose only neighbour has a larger id
C30_Witness ==
    /\ Called("components")
    /\ last.ret = 3
    /\ Cardinality(Components(pre)) = 2
    /\ ~is_connected(pre)
    /\ \E C \in Components(pre) : Cardinality(C) = 3
====
